---- MODULE Spec2Model ----
(***************************************************************************)
(* A model of openclaw-mlx-audio: the worker process supervisor            *)
(* (src/src/process-manager.ts, ProcessManager), the health monitor        *)
(* (HealthChecker), the readiness orchestrator (index.ts,                   *)
(* ensureServerReady) and the request gateway (TtsProxy).                   *)
(*                                                                         *)
(* JavaScript runs one macrotask (an event, a timer, an I/O completion) at  *)
(* a time and then every microtask it caused, so one action of this model   *)
(* is one macrotask together with the promise continuations it releases.    *)
(***************************************************************************)
EXTENDS FiniteSets, Integers, Sequences, TLC

\* ------------------------------------------------------------------ bounds
\* Lifecycle calls (start/stop/restart) that can be unsettled at once.
MaxTasks == 3
\* Child processes whose 'exit' event has not been delivered yet.
MaxProcs == 2
\* Largest cfg.maxRestarts the model configures a ProcessManager with.
MaxRestartsCfg == 2

\* check() invocations (settled, in flight) and stop() calls of one
\* HealthChecker that a behaviour follows.
MaxChecks == 6

\* Concurrent callers of ensureServerReady.
MaxCallers == 2
\* Client requests the gateway has accepted and not forgotten.
MaxRequests == 2
\* 'data' events of one request body.
MaxChunks == 2

\* --------------------------------------------------------------- constants
MAX_REQUEST_BODY_BYTES == 1048576
HEALTHY_UPTIME_MS == 30000
\* `if (this.consecutive_failures >= 3)` of HealthChecker.check
FailureThreshold == 3

NULL == 0

\* Date.now() - startedAt as the exit handler can observe it.
Uptimes == {0, HEALTHY_UPTIME_MS - 1, HEALTHY_UPTIME_MS}

\* Positions in the lifecycle queue
Slots == 1..MaxTasks
Pids == 1..MaxProcs

\* start(): a caller's start; start_timer: the start() of the delayed restart;
\* restart_reset: restart() (resetCrashCounter true);
\* restart_health: restart({resetCrashCounter: false}) of the unhealthy callback.
ManualKinds == {"start", "stop", "restart_reset"}
AutoKinds == {"start_timer", "restart_health"}
StartKinds == {"start", "start_timer"}

VARIABLES
    cfg,       \* ProcessManager.cfg: restartOnCrash, maxRestarts
    procMgr,   \* the ProcessManager's fields and its lifecycle tasks
    health,    \* the HealthChecker's fields and its checks in flight
    requests,  \* TtsProxy: the client requests and what handleRequest did with each
    orch,      \* index.ts register(): the service, the readiness attempts, the status
    fs,        \* the filesystem: the kind of the node at each real path
    resolution, \* one call of resolveSecureOutputPath: its locals and position
    proxy,     \* TtsProxy: this.server, its start() and stop() calls, the sockets
    config,    \* index.ts: the configuration applied, the host's, the config tasks
    tracker    \* StartupStatusTracker: the phase, the percentage, the cache-size poller

vars == <<cfg, procMgr, health, requests, orch, fs, resolution, proxy, config, tracker>>

\* ------------------------------------------------------- ProcessManager
\* lifecycleQueue holds the lifecycle calls that have not settled, in the
\* order runLifecycleTask chained them: pc is "queued" (awaiting the previous
\* task), "kph" (startInternal awaiting killPortHolder) or "exitwait"
\* (stopInternal awaiting the exit or the grace timer of child `target`).
\* alive: the children whose 'exit' event is still to come. owner is the
\* caller in index.ts that awaits the call (NULL: nobody the model follows);
\* results holds the outcomes whose awaiting callers have yet to resume in
\* the running macrotask.
\* settled and uptime record what the last macrotask did: the calls whose
\* promise it settled (kind; outcome: "spawned", "skipped" (a handle existed),
\* "failed" (rejected), "stopped", "denied" (no restart budget); ahead: the
\* unsettled calls issued before it; behindStart: it was issued while a
\* start() was unsettled), the uptime its exit handler computed, and
\* whether it cancelled a pending restart timer; port records the
\* killPortHolder that settled in it: whether lsof could be run, the processes
\* listening on the port and the signals sent to them; emitted the event of
\* a child it handled (the child and "exit" or "error").
NoPort == [inspected |-> FALSE, listeners |-> {}, signals |-> {}]

InitProcMgr ==
    [ proc |-> NULL, killed |-> FALSE, alive |-> {},
      restarts |-> 0, lastError |-> "null", startedAt |-> NULL,
      stopping |-> FALSE, restartBudgetExhausted |-> FALSE,
      restartTimer |-> FALSE,
      lifecycleQueue |-> <<>>, results |-> <<>>,
      settled |-> <<>>, uptime |-> -1, cancelled |-> FALSE, port |-> NoPort,
      emitted |-> {} ]

\* A new macrotask begins.
Macrotask(pm) ==
    [pm EXCEPT !.settled = <<>>, !.uptime = -1, !.cancelled = FALSE, !.port = NoPort,
               !.emitted = {}]

IsRunning(pm) == pm.proc # NULL /\ ~pm.killed

\* clearRestartTimer that leaves the timer armed
ClearRestartTimerNot(pm) == pm

ClearRestartTimer(pm) ==
    [pm EXCEPT !.restartTimer = FALSE, !.cancelled = @ \/ pm.restartTimer]

ScheduleRestart(pm) == [ClearRestartTimer(pm) EXCEPT !.restartTimer = TRUE]

ResetCrashCounter(pm) ==
    [pm EXCEPT !.restarts = 0, !.lastError = "null", !.restartBudgetExhausted = FALSE]

\* consumeRestartBudget without `if (this.restarts >= this.cfg.maxRestarts)`
ConsumeRestartBudgetUnlimited(pm, maxRestarts) ==
    IF pm.restartBudgetExhausted
    THEN <<FALSE, pm>>
    ELSE <<TRUE, [pm EXCEPT !.restarts = @ + 1]>>

\* consumeRestartBudget: <<granted, state after>>
ConsumeRestartBudget(pm, maxRestarts) ==
    IF pm.restartBudgetExhausted
    THEN <<FALSE, pm>>
    ELSE IF pm.restarts >= maxRestarts
         THEN <<FALSE, [pm EXCEPT !.restartBudgetExhausted = TRUE, !.lastError = "limit"]>>
         ELSE <<TRUE, [pm EXCEPT !.restarts = @ + 1]>>

FreePids(pm) == Pids \ pm.alive
NewPid(pm) == CHOOSE p \in FreePids(pm) : \A q \in FreePids(pm) : p <= q

\* spawn() without its `if (this.proc)` guard
SpawnReplacing(pm, throws) ==
    LET c == ClearRestartTimer(pm) IN
    IF throws
    THEN <<FALSE, [c EXCEPT !.lastError = "spawn"]>>
    ELSE <<TRUE, [c EXCEPT !.proc = NewPid(pm), !.killed = FALSE,
                           !.alive = @ \cup {NewPid(pm)},
                           !.startedAt = 1, !.lastError = "null"]>>

\* spawn(): <<returned value, state after>>; throws says child_process.spawn threw.
Spawn(pm, throws) ==
    IF pm.proc # NULL
    THEN <<FALSE, pm>>
    ELSE LET c == ClearRestartTimer(pm) IN
         IF throws
         THEN <<FALSE, [c EXCEPT !.lastError = "spawn"]>>
         ELSE <<TRUE, [c EXCEPT !.proc = NewPid(pm), !.killed = FALSE,
                                !.alive = @ \cup {NewPid(pm)},
                                !.startedAt = 1, !.lastError = "null"]>>

Remove(q, i) == [j \in 1..(Len(q) - 1) |-> IF j < i THEN q[j] ELSE q[j + 1]]

\* runLifecycleTask without its finally: a task that throws never releases
FinishHolding(pm, i, outcome) ==
    LET t == pm.lifecycleQueue[i] IN
    [pm EXCEPT !.lifecycleQueue = IF outcome = "failed"
                                  THEN [@ EXCEPT ![i].pc = "held"]
                                  ELSE Remove(@, i),
               !.results = IF t.owner # NULL
                           THEN Append(@, [owner |-> t.owner, outcome |-> outcome])
                           ELSE @,
               !.settled = Append(@, [kind |-> t.kind, outcome |-> outcome, ahead |-> i - 1,
                                      behindStart |-> t.behindStart]),
               !.lastError = IF t.kind = "start_timer" /\ outcome = "failed"
                             THEN "delayed" ELSE @]

\* The promise of lifecycle call i settles (runLifecycleTask's finally
\* releases the queue). The delayed restart's start() has a .catch that
\* records the error.
Finish(pm, i, outcome) ==
    LET t == pm.lifecycleQueue[i] IN
    [pm EXCEPT !.lifecycleQueue = Remove(@, i),
               !.results = IF t.owner # NULL
                           THEN Append(@, [owner |-> t.owner, outcome |-> outcome])
                           ELSE @,
               !.settled = Append(@, [kind |-> t.kind, outcome |-> outcome, ahead |-> i - 1,
                                      behindStart |-> t.behindStart]),
               !.lastError = IF t.kind = "start_timer" /\ outcome = "failed"
                             THEN "delayed" ELSE @]

\* startInternal up to its await of killPortHolder
StartInternal(pm, i) ==
    LET c == ClearRestartTimer(pm) IN
    IF c.proc # NULL
    THEN Finish(c, i, "skipped")
    ELSE [c EXCEPT !.stopping = FALSE, !.lifecycleQueue[i].pc = "kph"]

\* What follows stopInternal in the task: stop() is done, restart() starts.
AfterStop(pm, i) ==
    LET k == pm.lifecycleQueue[i].kind IN
    IF k = "stop" THEN Finish(pm, i, "stopped")
    ELSE IF k = "restart_reset" THEN StartInternal(ResetCrashCounter(pm), i)
    ELSE StartInternal(pm, i)

\* stopInternal resetting the crash counter when there is no handle
StopInternalResetting(pm, i) ==
    LET c == [ClearRestartTimer(pm) EXCEPT !.stopping = TRUE] IN
    IF c.proc = NULL
    THEN AfterStop(ResetCrashCounter(c), i)
    ELSE [c EXCEPT !.killed = TRUE,
                   !.lifecycleQueue[i].pc = "exitwait",
                   !.lifecycleQueue[i].target = c.proc]

\* stopInternal without `proc.kill("SIGTERM")`
StopInternalNoSignal(pm, i) ==
    LET c == [ClearRestartTimer(pm) EXCEPT !.stopping = TRUE] IN
    IF c.proc = NULL
    THEN AfterStop(c, i)
    ELSE [c EXCEPT !.lifecycleQueue[i].pc = "exitwait",
                   !.lifecycleQueue[i].target = c.proc]

\* stopInternal up to its await of the exit / the grace timer
StopInternal(pm, i) ==
    LET c == [ClearRestartTimer(pm) EXCEPT !.stopping = TRUE] IN
    IF c.proc = NULL
    THEN AfterStop(c, i)
    ELSE [c EXCEPT !.killed = TRUE,
                   !.lifecycleQueue[i].pc = "exitwait",
                   !.lifecycleQueue[i].target = c.proc]

\* stopInternal that forgets to drop the handle after the grace timer
StopInternalTailKeeping(pm, i) ==
    AfterStop([pm EXCEPT !.lifecycleQueue[i].target = NULL], i)

\* stopInternal after its await
StopInternalTail(pm, i) ==
    LET t == pm.lifecycleQueue[i].target
        c == IF pm.proc = t
             THEN [pm EXCEPT !.proc = NULL, !.killed = FALSE, !.startedAt = NULL]
             ELSE pm
    IN  AfterStop([c EXCEPT !.lifecycleQueue[i].target = NULL], i)

\* restart({ resetCrashCounter: false }) that does not ask for restart budget
TaskBodyUnbudgeted(pm, i, maxRestarts) ==
    LET k == pm.lifecycleQueue[i].kind IN
    IF k \in StartKinds THEN StartInternal(pm, i)
    ELSE IF k = "stop" THEN StopInternal(pm, i)
    ELSE StopInternal(ClearRestartTimer(pm), i)

\* The body of lifecycle call i, run until its first await.
TaskBody(pm, i, maxRestarts) ==
    LET k == pm.lifecycleQueue[i].kind IN
    IF k \in StartKinds THEN StartInternal(pm, i)
    ELSE IF k = "stop" THEN StopInternal(pm, i)
    ELSE IF k = "restart_reset" THEN StopInternal(ClearRestartTimer(pm), i)
    ELSE LET b == ConsumeRestartBudget(ClearRestartTimer(pm), maxRestarts) IN
         IF b[1] THEN StopInternal(b[2], i) ELSE Finish(b[2], i, "denied")

\* runLifecycleTask without `await previous`
CanBeginAtOnce(pm, i) == TRUE

\* runLifecycleTask's `await previous`: the call chained just before has
\* released, which by induction is: every earlier call has left the queue.
CanBegin(pm, i) == i = 1

Runnable(pm) ==
    {i \in DOMAIN pm.lifecycleQueue : pm.lifecycleQueue[i].pc = "queued" /\ CanBegin(pm, i)}

RECURSIVE RunLifecycleTasks(_, _)
RunLifecycleTasks(pm, maxRestarts) ==
    IF Runnable(pm) = {}
    THEN pm
    ELSE LET i == CHOOSE j \in Runnable(pm) : \A l \in Runnable(pm) : j <= l
         IN  RunLifecycleTasks(TaskBody(pm, i, maxRestarts), maxRestarts)

\* runLifecycleTask up to `await previous`, called for owner
EnqueueFor(pm, kind, owner) ==
    [pm EXCEPT !.lifecycleQueue =
        Append(@, [kind |-> kind, pc |-> "queued", target |-> NULL, owner |-> owner,
                   behindStart |-> \E j \in DOMAIN @ : @[j].kind \in StartKinds])]

Enqueue(pm, kind) == EnqueueFor(pm, kind, NULL)

HasRoom(pm) == Len(pm.lifecycleQueue) < MaxTasks

\* The exit handler comparing uptime > HEALTHY_UPTIME_MS
ExitHandlerStrict(pm, p, elapsed, c) ==
    IF pm.proc # p
    THEN pm
    ELSE LET uptime == IF pm.startedAt # NULL THEN elapsed ELSE 0
             gone == [pm EXCEPT !.proc = NULL, !.killed = FALSE, !.startedAt = NULL,
                                !.uptime = uptime]
         IN  IF pm.stopping THEN gone
             ELSE LET h == IF uptime > HEALTHY_UPTIME_MS
                           THEN [gone EXCEPT !.restarts = 0,
                                             !.restartBudgetExhausted = FALSE,
                                             !.lastError = "null"]
                           ELSE gone
                  IN  IF c.restartOnCrash
                      THEN LET b == ConsumeRestartBudget(h, c.maxRestarts) IN
                           IF b[1] THEN ScheduleRestart(b[2]) ELSE b[2]
                      ELSE [h EXCEPT !.lastError = "no_restart"]

\* The exit handler scheduling the restart whatever consumeRestartBudget said
ExitHandlerAlwaysRestarting(pm, p, elapsed, c) ==
    IF pm.proc # p
    THEN pm
    ELSE LET uptime == IF pm.startedAt # NULL THEN elapsed ELSE 0
             gone == [pm EXCEPT !.proc = NULL, !.killed = FALSE, !.startedAt = NULL,
                                !.uptime = uptime]
         IN  IF pm.stopping THEN gone
             ELSE LET h == IF uptime >= HEALTHY_UPTIME_MS
                           THEN [gone EXCEPT !.restarts = 0,
                                             !.restartBudgetExhausted = FALSE,
                                             !.lastError = "null"]
                           ELSE gone
                  IN  IF c.restartOnCrash
                      THEN ScheduleRestart(ConsumeRestartBudget(h, c.maxRestarts)[2])
                      ELSE [h EXCEPT !.lastError = "no_restart"]

\* The exit handler without `if (this.proc !== proc) return`
ExitHandlerUnguarded(pm, p, elapsed, c) ==
    ExitHandlerStrict([pm EXCEPT !.proc = p], p, elapsed, c)

\* The exit handler spawn() attached to child p.
ExitHandler(pm, p, elapsed, c) ==
    IF pm.proc # p
    THEN pm
    ELSE LET uptime == IF pm.startedAt # NULL THEN elapsed ELSE 0
             gone == [pm EXCEPT !.proc = NULL, !.killed = FALSE, !.startedAt = NULL,
                                !.uptime = uptime]
         IN  IF pm.stopping THEN gone
             ELSE LET h == IF uptime >= HEALTHY_UPTIME_MS
                           THEN [gone EXCEPT !.restarts = 0,
                                             !.restartBudgetExhausted = FALSE,
                                             !.lastError = "null"]
                           ELSE gone
                  IN  IF c.restartOnCrash
                      THEN LET b == ConsumeRestartBudget(h, c.maxRestarts) IN
                           IF b[1] THEN ScheduleRestart(b[2]) ELSE b[2]
                      ELSE [h EXCEPT !.lastError = "no_restart"]

\* The error handler spawn() attached to child p.
ErrorHandler(pm, p) ==
    IF pm.proc # p THEN pm ELSE [pm EXCEPT !.lastError = "error"]

\* stopInternal's proc.once("exit") listeners, which run after the exit handler
ExitWaiters(pm, p) ==
    {i \in DOMAIN pm.lifecycleQueue :
        pm.lifecycleQueue[i].pc = "exitwait" /\ pm.lifecycleQueue[i].target = p}

RECURSIVE ResumeStops(_, _)
ResumeStops(pm, p) ==
    IF ExitWaiters(pm, p) = {}
    THEN pm
    ELSE LET i == CHOOSE j \in ExitWaiters(pm, p) : \A l \in ExitWaiters(pm, p) : j <= l
         IN  ResumeStops(StopInternalTail(pm, i), p)

\* The processes lsof may find listening on the port: a worker left over
\* that exits on SIGTERM ("stale"), one that is still alive a second later
\* ("stubborn"), and a process whose command line is not a worker's
\* ("foreign"; also a process whose command line ps could not give).
\* lsof says whether lsof itself could be run.
PortScans == [lsof : BOOLEAN, listeners : SUBSET {"stale", "stubborn", "foreign"}]

\* isMlxAudioProcess(command)
IsMlxAudioProcess(listener) == listener # "foreign"

\* killPortHolder that signals the stale workers before looking for foreign
\* owners
KillPortHolderEager(scan) ==
    LET found == IF scan.lsof THEN scan.listeners ELSE {}
        stalePids == {l \in found : IsMlxAudioProcess(l)}
    IN  [ throws |-> \E l \in found : ~IsMlxAudioProcess(l),
          signals |-> {<<l, "SIGTERM">> : l \in stalePids}
                         \cup {<<l, "SIGKILL">> : l \in stalePids \cap {"stubborn"}} ]

\* killPortHolder: whether it throws, and the signals it sent. An lsof that
\* fails is caught: nothing is found.
KillPortHolder(scan) ==
    LET found == IF scan.lsof THEN scan.listeners ELSE {}
        stalePids == {l \in found : IsMlxAudioProcess(l)}
        foreignOwners == found \ stalePids
    IN  IF foreignOwners # {}
        THEN [throws |-> TRUE, signals |-> {}]
        ELSE [ throws |-> FALSE,
               signals |-> {<<l, "SIGTERM">> : l \in stalePids}
                              \cup {<<l, "SIGKILL">> : l \in stalePids \cap {"stubborn"}} ]

\* A spawn that succeeds needs a pid no unreaped child holds.
CanSettle(pm, foreign, throws) ==
    foreign \/ throws \/ pm.proc # NULL \/ FreePids(pm) # {}

\* scheduleRestart's timer callback: `if (this.stopping || this.proc) return`
TimerSkips(pm) == pm.stopping \/ pm.proc # NULL

\* --------------------------------------------------------- HealthChecker
\* pings counts the check() invocations awaiting their ping, by who called
\* check(): "call" a caller, "tick" the interval callback of start().
\* history records, in order, the ping outcome of every check() that went on
\* past its await ("ok": true, "false": false, "throw": an exception) and
\* every stop() that ended a row of failures; unhealthyCalls counts the calls
\* of onUnhealthy.
PingOutcomes == {"ok", "false", "throw"}
Origins == {"call", "tick"}

InitHealth ==
    [ timer |-> FALSE, consecutive_failures |-> 0,
      pings |-> [o \in Origins |-> 0],
      history |-> <<>>, unhealthyCalls |-> 0 ]

\* start()
HealthStart(h) == IF h.timer THEN h ELSE [h EXCEPT !.timer = TRUE]

\* stop() that keeps the counter
HealthStopKeeping(h) ==
    [h EXCEPT !.timer = FALSE,
              !.history = IF @ # <<>> /\ @[Len(@)] \in {"false", "throw"}
                          THEN Append(@, "stop") ELSE @]

\* stop()
HealthStop(h) ==
    [h EXCEPT !.timer = FALSE, !.consecutive_failures = 0,
              !.history = IF @ # <<>> /\ @[Len(@)] \in {"false", "throw"}
                          THEN Append(@, "stop") ELSE @]

\* check() up to `await this.ping()`: the probe is issued
Check(h, origin) == [h EXCEPT !.pings[origin] = @ + 1]

\* check() that leaves the counter alone after calling onUnhealthy
CheckTailKeeping(h, origin, outcome) ==
    LET r == [h EXCEPT !.pings[origin] = @ - 1, !.history = Append(@, outcome)] IN
    IF outcome = "ok"
    THEN [r EXCEPT !.consecutive_failures = 0]
    ELSE LET f == r.consecutive_failures + 1 IN
         IF f >= FailureThreshold
         THEN [r EXCEPT !.unhealthyCalls = @ + 1, !.consecutive_failures = f]
         ELSE [r EXCEPT !.consecutive_failures = f]

\* check() after its await
CheckTail(h, origin, outcome) ==
    LET r == [h EXCEPT !.pings[origin] = @ - 1, !.history = Append(@, outcome)] IN
    IF outcome = "ok"
    THEN [r EXCEPT !.consecutive_failures = 0]
    ELSE LET f == r.consecutive_failures + 1 IN
         IF f >= FailureThreshold
         THEN [r EXCEPT !.unhealthyCalls = @ + 1, !.consecutive_failures = 0]
         ELSE [r EXCEPT !.consecutive_failures = f]

InFlight(h) == h.pings["call"] + h.pings["tick"]
ChecksLeft(h) == Len(h.history) + InFlight(h) < MaxChecks

\* HealthChecker.start() called
HCStart ==
    /\ health' = HealthStart(health)
    /\ UNCHANGED <<cfg, procMgr, requests, orch, fs, resolution, proxy, config, tracker>>

\* HealthChecker.stop() called
HCStop ==
    /\ Len(health.history) < MaxChecks
    /\ health' = HealthStop(health)
    /\ UNCHANGED <<cfg, procMgr, requests, orch, fs, resolution, proxy, config, tracker>>

\* HealthChecker.check() called by a caller
HCCheck ==
    /\ ChecksLeft(health)
    /\ health' = Check(health, "call")
    /\ UNCHANGED <<cfg, procMgr, requests, orch, fs, resolution, proxy, config, tracker>>

\* The interval of start() elapses: `() => this.check()`
HCTick ==
    /\ health.timer
    /\ ChecksLeft(health)
    /\ health' = Check(health, "tick")
    /\ UNCHANGED <<cfg, procMgr, requests, orch, fs, resolution, proxy, config, tracker>>

\* A ping settles and the check() awaiting it goes on
HCPingSettles(origin, outcome) ==
    /\ health.pings[origin] > 0
    /\ health' = CheckTail(health, origin, outcome)
    /\ UNCHANGED <<cfg, procMgr, requests, orch, fs, resolution, proxy, config, tracker>>

\* --------------------------------------------------------------- TtsProxy
\* A request: route ("speech": POST /v1/audio/speech, "models": GET
\* /v1/models, "other": anything else); body: the complete body the 'end'
\* handler saw and sent: the body it forwarded to the worker; pc:
\* "idle" (not arrived), "ensuring" (handleRequest awaits
\* ensureUpstreamReady), "body" (the data/end listeners are attached),
\* "upstream" (an upstream request has been made), "done" (the gateway
\* answered by itself); ready: the state of the ensureUpstreamReady() promise
\* of this request and detail the message of its rejection; chunks, bodySize
\* and tooLarge: the locals of handleRequest; upstream: what was sent to the
\* worker; status, resError and resDetail: the response head and the JSON
\* error written to the client (status 0: no head written), wrote: body bytes
\* of the worker were written to the client, resEnded: res.end() was called,
\* client: "gone" once the client connection is closed or destroyed.
\* up: the outbound request ("waiting": no response yet, "streaming": its
\* response callback ran, "ended": the response ended, "destroyed": failed or
\* destroyed); upStatus: the worker's status code; piped: the response is
\* piped to the client; headersSent: the local of forwardToUpstream;
\* disconnected: the local of watchClientDisconnect.
Routes == {"speech", "models", "other"}

\* JSON values: a string input is a sequence of characters; the other fields
\* hold a string or a number, "absent" is a missing field.
Whitespace == {" ", "\t", "\n"}
NoText == [t |-> "absent", v |-> <<>>]
NoValue == [t |-> "absent", v |-> ""]
\* The keys followed: input, voice, model (sent by callers and injected),
\* speed (injected only) standing for the other injected parameters.
NoFields == [input |-> NoText, voice |-> NoValue, model |-> NoValue, speed |-> NoValue]
\* The request bodies: text that JSON.parse rejects, JSON that is not an
\* object, and objects whose input, voice and model are absent or of some type
Bodies ==
    {[kind |-> k, fields |-> NoFields] : k \in {"invalid_json", "not_object"}}
    \cup {[kind |-> "object",
           fields |-> [input |-> i, voice |-> v, model |-> m, speed |-> NoValue]] :
              i \in {NoText, [t |-> "number", v |-> <<>>]}
                    \cup {[t |-> "string", v |-> x] :
                             x \in {<<>>, <<" ", "\t">>, <<" ", "h", "i">>}},
              v \in {NoValue, [t |-> "number", v |-> "1"]}
                    \cup {[t |-> "string", v |-> x] : x \in {"alloy", "af_bella"}},
              m \in {NoValue, [t |-> "string", v |-> "client-overridden"]}}

OPENAI_VOICE_NAMES ==
    {"alloy", "ash", "ballad", "coral", "echo", "fable", "nova", "onyx", "sage",
     "shimmer", "verse"}

\* buildInjectedParams(this.cfg)
BuildInjectedParams ==
    [input |-> NoText, voice |-> NoValue,
     model |-> [t |-> "string", v |-> "cfg.model"],
     speed |-> [t |-> "number", v |-> "cfg.speed"]]

\* String.prototype.trim
RECURSIVE TrimStart(_)
TrimStart(x) ==
    IF x # <<>> /\ Head(x) \in Whitespace THEN TrimStart(Tail(x)) ELSE x
RECURSIVE TrimEnd(_)
TrimEnd(x) ==
    IF x # <<>> /\ x[Len(x)] \in Whitespace THEN TrimEnd(SubSeq(x, 1, Len(x) - 1)) ELSE x
Trim(x) == TrimEnd(TrimStart(x))

\* typeof parsed.input !== "string" || parsed.input.trim().length === 0
BadInput(input) == input.t # "string" \/ Len(Trim(input.v)) = 0

\* { ...parsed, ...injected }
Spread(parsed, injected) ==
    [k \in DOMAIN parsed |-> IF injected[k].t # "absent" THEN injected[k] ELSE parsed[k]]

\* The merge without `merged.input = parsed.input` and without the voice rule
MergeBodyPlain(parsed, injected) == Spread(parsed, injected)

\* The body handleRequest forwards for the parsed body
MergeBody(parsed, injected) ==
    LET merged == [Spread(parsed, injected) EXCEPT !.input = parsed.input] IN
    IF merged.voice.t = "string" /\ merged.voice.v \in OPENAI_VOICE_NAMES
    THEN [merged EXCEPT !.voice = NoValue]
    ELSE merged
Details == {"not_running", "health_timeout"}
ChunkLengths == {1, MAX_REQUEST_BODY_BYTES}
RequestIds == 1..MaxRequests

InitRequest ==
    [ pc |-> "idle", route |-> "other", body |-> [kind |-> "none", fields |-> NoFields], sent |-> NoFields,
      ready |-> "none", detail |-> "none",
      chunks |-> 0, bodySize |-> 0, tooLarge |-> FALSE,
      upstream |-> "none", status |-> 0, resError |-> "none", resDetail |-> "none",
      wrote |-> FALSE, resEnded |-> FALSE, client |-> "open",
      up |-> "none", upStatus |-> 0, piped |-> FALSE, headersSent |-> FALSE,
      disconnected |-> FALSE ]

GatedAll(route) == TRUE

Gated(route) == route \in {"speech", "models"}

\* proxyRaw: the request is piped to the worker as it is
ProxyRaw(q) == [q EXCEPT !.upstream = "raw", !.pc = "upstream", !.up = "waiting"]

\* handleRequest after the readiness gate
AfterGate(q) == IF q.route # "speech" THEN ProxyRaw(q) ELSE [q EXCEPT !.pc = "body"]

\* handleRequest up to `await this.ensureUpstreamReady()`
HandleRequest(route) ==
    LET q == [InitRequest EXCEPT !.route = route] IN
    IF Gated(route)
    THEN [q EXCEPT !.pc = "ensuring", !.ready = "pending"]
    ELSE AfterGate(q)

\* handleRequest whose catch block does not return after the 503
EnsureSettledFallingThrough(q, ok, detail) ==
    IF ok
    THEN AfterGate([q EXCEPT !.ready = "ok"])
    ELSE AfterGate([q EXCEPT !.ready = "rejected", !.detail = detail,
                             !.status = 503, !.resError = "unavailable",
                             !.resDetail = detail])

\* handleRequest from the settling of ensureUpstreamReady()
EnsureSettled(q, ok, detail) ==
    IF ok
    THEN AfterGate([q EXCEPT !.ready = "ok"])
    ELSE [q EXCEPT !.ready = "rejected", !.detail = detail,
                   !.status = 503, !.resError = "unavailable",
                   !.resDetail = detail, !.resEnded = TRUE, !.pc = "done"]

\* req.on("data") without `if (tooLarge) return`
OnDataUnguarded(q, len) ==
    LET size == q.bodySize + len IN
    IF size > MAX_REQUEST_BODY_BYTES
    THEN [q EXCEPT !.bodySize = size, !.tooLarge = TRUE, !.status = 413,
                   !.resError = "too_large", !.resEnded = TRUE, !.pc = "done"]
    ELSE [q EXCEPT !.bodySize = size, !.chunks = @ + 1]

\* req.on("data")
OnData(q, len) ==
    IF q.tooLarge THEN q
    ELSE LET size == q.bodySize + len IN
         IF size > MAX_REQUEST_BODY_BYTES
         THEN [q EXCEPT !.bodySize = size, !.tooLarge = TRUE, !.status = 413,
                        !.resError = "too_large", !.resEnded = TRUE, !.pc = "done"]
         ELSE [q EXCEPT !.bodySize = size, !.chunks = @ + 1]

\* forwardToUpstream: the outbound request is made and the body written
ForwardToUpstream(q, body) ==
    [q EXCEPT !.upstream = "speech", !.sent = body, !.pc = "upstream", !.up = "waiting"]

\* req.on("end") forwarding whatever parses as an object
OnEndUnchecked(q, body) ==
    IF q.tooLarge THEN q
    ELSE LET b == [q EXCEPT !.body = body, !.chunks = 0, !.bodySize = 0] IN
         IF body.kind = "invalid_json"
         THEN [b EXCEPT !.status = 400, !.resError = "invalid", !.resEnded = TRUE,
                        !.pc = "done"]
         ELSE IF body.kind # "object"
         THEN [b EXCEPT !.status = 400, !.resError = "not_object", !.resEnded = TRUE,
                        !.pc = "done"]
         ELSE ForwardToUpstream(b, MergeBody(body.fields, BuildInjectedParams))

\* req.on("end"): parse, validate, merge and forwardToUpstream; chunks and
\* bodySize are not used again
OnEnd(q, body) ==
    IF q.tooLarge THEN q
    ELSE LET b == [q EXCEPT !.body = body, !.chunks = 0, !.bodySize = 0] IN
         IF body.kind = "invalid_json"
         THEN [b EXCEPT !.status = 400, !.resError = "invalid", !.resEnded = TRUE,
                        !.pc = "done"]
         ELSE IF body.kind # "object"
         THEN [b EXCEPT !.status = 400, !.resError = "not_object", !.resEnded = TRUE,
                        !.pc = "done"]
         ELSE IF BadInput(body.fields.input)
         THEN [b EXCEPT !.status = 400, !.resError = "no_input", !.resEnded = TRUE,
                        !.pc = "done"]
         ELSE ForwardToUpstream(b, MergeBody(body.fields, BuildInjectedParams))

Live == {"waiting", "streaming"}

\* res.writeHead(502), res.end(JSON) of the error paths
BadGateway(q, error) ==
    [q EXCEPT !.status = 502, !.resError = error, !.resEnded = TRUE]

\* forwardToUpstream's response callback writing the head at once
OnSpeechResponseEager(q, statusCode) ==
    [q EXCEPT !.up = "streaming", !.upStatus = statusCode,
              !.status = statusCode, !.piped = TRUE]

\* forwardToUpstream's response callback
OnSpeechResponse(q, statusCode) ==
    IF statusCode >= 300
    THEN [q EXCEPT !.up = "streaming", !.upStatus = statusCode,
                   !.status = statusCode, !.piped = TRUE]
    ELSE [q EXCEPT !.up = "streaming", !.upStatus = statusCode]

\* proxyRaw's response callback
OnRawResponse(q, statusCode) ==
    [q EXCEPT !.up = "streaming", !.upStatus = statusCode,
              !.status = statusCode, !.piped = TRUE]

\* upstream.on("error")
OnUpstreamError(q) ==
    IF q.disconnected THEN q
    ELSE IF q.status = 0 /\ q.client # "gone" THEN BadGateway(q, "unavailable")
    ELSE q

\* upstreamRes.on("error"): attached only when the head is deferred (a
\* response that upstream.on("error") has already ended stays as it is)
OnResponseError(q) ==
    IF q.piped THEN q
    ELSE IF ~q.headersSent /\ q.client # "gone"
         THEN IF q.resEnded THEN q ELSE BadGateway(q, "stream")
         ELSE IF q.client # "gone" THEN [q EXCEPT !.client = "gone"]
         ELSE q

\* The client's close without watchClientDisconnect
OnClientCloseUnwatched(q) == [q EXCEPT !.client = "gone"]

\* The client connection closes: onRequestClose / onResponseClose of
\* watchClientDisconnect, if an outbound request is being watched
OnClientClose(q) ==
    LET g == [q EXCEPT !.client = "gone"] IN
    IF q.up \in Live /\ ~q.resEnded /\ ~q.disconnected
    THEN [g EXCEPT !.disconnected = TRUE, !.up = "destroyed"]
    ELSE g

\* The data and end listeners are attached; events already under way may
\* still reach them after req.destroy()
Listening(q) == q.client = "open" /\ (q.pc = "body" \/ q.tooLarge)

\* A client request arrives
Arrive(r, route) ==
    /\ requests[r].pc = "idle"
    /\ requests' = [requests EXCEPT ![r] = HandleRequest(route)]
    /\ UNCHANGED <<cfg, procMgr, health, orch, fs, resolution, proxy, config, tracker>>

\* ensureUpstreamReady() of request r resolves (ok) or rejects with detail
EnsureSettles(r, ok, detail) ==
    /\ requests[r].pc = "ensuring"
    /\ requests' = [requests EXCEPT ![r] = EnsureSettled(@, ok, detail)]
    /\ UNCHANGED <<cfg, procMgr, health, orch, fs, resolution, proxy, config, tracker>>

\* A chunk of the body of request r arrives
BodyData(r, len) ==
    /\ Listening(requests[r])
    /\ requests[r].chunks < MaxChunks
    /\ requests' = [requests EXCEPT ![r] = OnData(@, len)]
    /\ UNCHANGED <<cfg, procMgr, health, orch, fs, resolution, proxy, config, tracker>>

\* The body of request r is complete
BodyEnd(r, body) ==
    /\ Listening(requests[r])
    /\ requests' = [requests EXCEPT ![r] = OnEnd(@, body)]
    /\ UNCHANGED <<cfg, procMgr, health, orch, fs, resolution, proxy, config, tracker>>

\* The worker's response head arrives for request r
UpstreamResponds(r, statusCode) ==
    /\ requests[r].up = "waiting"
    /\ requests' = [requests EXCEPT ![r] =
                       IF @.upstream = "speech" THEN OnSpeechResponse(@, statusCode)
                       ELSE OnRawResponse(@, statusCode)]
    /\ UNCHANGED <<cfg, procMgr, health, orch, fs, resolution, proxy, config, tracker>>

\* A chunk of the worker's response body arrives: upstreamRes.on("data"), or
\* the pipe writing it
UpstreamData(r) ==
    /\ requests[r].up = "streaming"
    /\ requests' = [requests EXCEPT ![r] =
                       LET q == requests[r] IN
                       IF q.piped THEN [q EXCEPT !.wrote = TRUE]
                       ELSE IF ~q.headersSent
                       THEN [q EXCEPT !.headersSent = TRUE, !.status = q.upStatus,
                                      !.wrote = TRUE]
                       ELSE [q EXCEPT !.wrote = TRUE]]
    /\ UNCHANGED <<cfg, procMgr, health, orch, fs, resolution, proxy, config, tracker>>

\* The worker's response ends: upstreamRes.on("end"), or the pipe ending the
\* client's response
UpstreamEnds(r) ==
    /\ requests[r].up = "streaming"
    /\ requests' = [requests EXCEPT ![r] =
                       LET e == [requests[r] EXCEPT !.up = "ended"] IN
                       IF e.piped THEN [e EXCEPT !.resEnded = TRUE]
                       ELSE IF ~e.headersSent
                       THEN IF e.client # "gone" THEN BadGateway(e, "empty") ELSE e
                       ELSE [e EXCEPT !.resEnded = TRUE]]
    /\ UNCHANGED <<cfg, procMgr, health, orch, fs, resolution, proxy, config, tracker>>

\* The outbound request of r fails (a network error, or the 600 s timeout
\* destroys it): its error handler runs, then the response, if one is
\* streaming, is aborted
UpstreamFails(r) ==
    /\ requests[r].up \in Live
    /\ requests' = [requests EXCEPT ![r] =
                       LET e == OnUpstreamError(requests[r]) IN
                       [(IF e.up = "streaming" THEN OnResponseError(e) ELSE e)
                           EXCEPT !.up = "destroyed"]]
    /\ UNCHANGED <<cfg, procMgr, health, orch, fs, resolution, proxy, config, tracker>>

\* The client of request r disconnects
ClientDisconnects(r) ==
    /\ requests[r].pc # "idle"
    /\ requests[r].client = "open"
    /\ requests' = [requests EXCEPT ![r] = OnClientClose(@)]
    /\ UNCHANGED <<cfg, procMgr, health, orch, fs, resolution, proxy, config, tracker>>

\* ------------------------------------------------- readiness orchestrator
\* index.ts register(): serviceRunning, pythonRuntimePrepared and
\* ensureServerPromise (NULL, or the caller whose call created the pending
\* attempt) are its variables of those names; service is where the service's
\* start()/stop() stands ("stopped", "running", "proxy_closing": stop() awaits
\* proxy.stop(), "server_stopping": stop() awaits procMgr.stop());
\* startupStatus is the tracker's phase and inProgress. calls holds the
\* ensureServerReady() calls: pc "idle" (no call), "hot" (the running branch
\* awaits waitForServerHealthy; snap is snapshot.inProgress), "joined" (awaits
\* the attempt of caller `awaits`), and for the call that created an attempt
\* "prep" (awaits the Python runtime), "starting" (awaits procMgr.start()),
\* "polling" (awaits waitForServerHealthy), "cleanup" (the catch block awaits
\* procMgr.stop()); started is the attempt's local. preps and starts count
\* the ensurePythonRuntimeReady() and procMgr.start() calls of the attempts
\* made since an attempt was last created with none pending.
\* attempt tells, for a call made while an attempt was pending, what has
\* become of that attempt ("none": no attempt was pending). returned and
\* failures record what the last macrotask did: the calls it settled (ok: the
\* call resolved; via: "attempt" for the call that created the attempt;
\* started: the attempt's local when it settled) and
\* the attempts whose catch block it ran (started: the attempt's local;
\* running: serviceRunning in the catch block), and begun whether it called
\* startupStatus.begin().
Callers == 1..MaxCallers
ServiceOwner == MaxCallers + 1
AttemptStages == {"prep", "starting", "polling", "cleanup"}

IdleCall ==
    [pc |-> "idle", started |-> FALSE, snap |-> FALSE, awaits |-> NULL, attempt |-> "none"]

InitOrch ==
    [ serviceRunning |-> FALSE, pythonRuntimePrepared |-> FALSE,
      ensureServerPromise |-> NULL, service |-> "stopped",
      startupStatus |-> [phase |-> "idle", inProgress |-> FALSE],
      calls |-> [c \in Callers |-> IdleCall],
      preps |-> 0, starts |-> 0, returned |-> {}, failures |-> {}, begun |-> FALSE ]

\* StartupStatusTracker.updatePhase
UpdatePhase(s, phase, inProgress) ==
    [s EXCEPT !.o.startupStatus = [phase |-> phase, inProgress |-> inProgress]]

\* A lifecycle call on the supervisor: it runs at once if nothing is ahead
CallProcMgr(s, kind, owner) ==
    [s EXCEPT !.pm = RunLifecycleTasks(EnqueueFor(s.pm, kind, owner), s.cfg.maxRestarts)]

\* The call of caller c returns
Return(s, c, ok, via) ==
    [s EXCEPT !.o.returned = @ \cup {[c |-> c, ok |-> ok, via |-> via,
                                      attempt |-> s.o.calls[c].attempt,
                                      started |-> s.o.calls[c].started]},
              !.o.calls[c] = IdleCall]

\* What has become of an attempt
Outcome(ok) == IF ok THEN "resolved" ELSE "rejected"

\* The calls that joined the attempt of caller c
Joined(s, c) == {d \in Callers : s.o.calls[d].pc = "joined" /\ s.o.calls[d].awaits = c}

\* The attempt settling with its `finally` missing
SettleAttemptKeepingGuard(s, c, ok) ==
    [s EXCEPT !.o.returned = @ \cup
                  {[c |-> d, ok |-> ok, via |-> IF d = c THEN "attempt" ELSE "joined",
                    attempt |-> Outcome(ok), started |-> d = c /\ s.o.calls[c].started] :
                      d \in Joined(s, c) \cup {c}},
              !.o.calls = [d \in Callers |->
                               IF d \in Joined(s, c) \cup {c} THEN IdleCall
                               ELSE IF @[d].awaits = c
                               THEN [@[d] EXCEPT !.attempt = Outcome(ok), !.awaits = NULL]
                               ELSE @[d]]]

\* The attempt settling with the calls that joined it resolving regardless
SettleAttemptResolving(s, c, ok) ==
    [s EXCEPT !.o.ensureServerPromise = NULL,
              !.o.returned = @ \cup
                  {[c |-> d, ok |-> d # c \/ ok, via |-> IF d = c THEN "attempt" ELSE "joined",
                    attempt |-> Outcome(ok), started |-> d = c /\ s.o.calls[c].started] :
                      d \in Joined(s, c) \cup {c}},
              !.o.calls = [d \in Callers |->
                               IF d \in Joined(s, c) \cup {c} THEN IdleCall
                               ELSE IF @[d].awaits = c
                               THEN [@[d] EXCEPT !.attempt = Outcome(ok), !.awaits = NULL]
                               ELSE @[d]]]

\* The attempt of caller c settles: c's `finally` clears the guard, and c and
\* the calls that joined the attempt return with the attempt's outcome
SettleAttempt(s, c, ok) ==
    [s EXCEPT !.o.ensureServerPromise = NULL,
              !.o.returned = @ \cup
                  {[c |-> d, ok |-> ok, via |-> IF d = c THEN "attempt" ELSE "joined",
                    attempt |-> Outcome(ok), started |-> d = c /\ s.o.calls[c].started] :
                      d \in Joined(s, c) \cup {c}},
              !.o.calls = [d \in Callers |->
                               IF d \in Joined(s, c) \cup {c} THEN IdleCall
                               ELSE IF @[d].awaits = c
                               THEN [@[d] EXCEPT !.attempt = Outcome(ok), !.awaits = NULL]
                               ELSE @[d]]]

\* The catch block without `if (started) await procMgr.stop()`
FailKeepingWorker(s, c) ==
    LET u == IF s.o.serviceRunning
             THEN UpdatePhase(s, "error", FALSE)
             ELSE UpdatePhase(s, "idle", FALSE)
        m == [u EXCEPT !.o.failures = @ \cup {[c |-> c, started |-> s.o.calls[c].started,
                                               running |-> s.o.serviceRunning]}]
    IN  SettleAttempt(m, c, FALSE)

\* The catch block of the attempt
Fail(s, c) ==
    LET u == IF s.o.serviceRunning
             THEN UpdatePhase(s, "error", FALSE)
             ELSE UpdatePhase(s, "idle", FALSE)
        m == [u EXCEPT !.o.failures = @ \cup {[c |-> c, started |-> s.o.calls[c].started,
                                               running |-> s.o.serviceRunning]}]
    IN  IF m.o.calls[c].started
        THEN CallProcMgr([m EXCEPT !.o.calls[c].pc = "cleanup"], "stop", c)
        ELSE SettleAttempt(m, c, FALSE)

\* The attempt from the return of ensurePythonRuntimeReady to `await procMgr.start()`
AfterPrep(s, c) ==
    IF ~s.o.serviceRunning
    THEN Fail(s, c)
    ELSE CallProcMgr([UpdatePhase(s, "starting_server", TRUE)
                          EXCEPT !.o.calls[c].pc = "starting", !.o.starts = @ + 1],
                     "start", c)

\* ensureServerPromise = (async () => {...})(), up to the attempt's first await
BeginAttempt(s, c) ==
    LET fresh == \A d \in Callers : s.o.calls[d].pc \notin AttemptStages
        b == [UpdatePhase(s, "preparing_python", TRUE)
                 EXCEPT !.o.ensureServerPromise = c,
                        !.o.begun = TRUE,
                        !.o.preps = IF fresh THEN 1 ELSE @ + 1,
                        !.o.starts = IF fresh THEN 0 ELSE @]
    IN  IF b.o.pythonRuntimePrepared
        THEN AfterPrep(b, c)
        ELSE [b EXCEPT !.o.calls[c].pc = "prep"]

\* ensureServerReady without `if (ensureServerPromise)`
JoinsNever(o) == FALSE

\* `if (ensureServerPromise) { await ensureServerPromise; return; }`
Joins(o) == o.ensureServerPromise # NULL

\* ensureServerReady without `if (!serviceRunning) throw`
EnsureServerReadyUnguarded(s, c) ==
    IF IsRunning(s.pm)
    THEN LET snap == s.o.startupStatus.inProgress
             w == IF snap THEN UpdatePhase(s, "waiting_health", TRUE) ELSE s
         IN  [w EXCEPT !.o.calls[c].pc = "hot", !.o.calls[c].snap = snap,
                       !.o.calls[c].awaits = s.o.ensureServerPromise,
                       !.o.calls[c].attempt =
                           IF s.o.ensureServerPromise # NULL THEN "pending" ELSE "none"]
    ELSE IF Joins(s.o)
    THEN [s EXCEPT !.o.calls[c].pc = "joined", !.o.calls[c].awaits = s.o.ensureServerPromise]
    ELSE BeginAttempt(s, c)

\* ensureServerReady() called by caller c, up to its first await
EnsureServerReady(s, c) ==
    IF ~s.o.serviceRunning
    THEN Return(s, c, FALSE, "not_running")
    ELSE IF IsRunning(s.pm)
    THEN LET snap == s.o.startupStatus.inProgress
             w == IF snap THEN UpdatePhase(s, "waiting_health", TRUE) ELSE s
         IN  [w EXCEPT !.o.calls[c].pc = "hot", !.o.calls[c].snap = snap,
                       !.o.calls[c].awaits = s.o.ensureServerPromise,
                       !.o.calls[c].attempt =
                           IF s.o.ensureServerPromise # NULL THEN "pending" ELSE "none"]
    ELSE IF Joins(s.o)
    THEN [s EXCEPT !.o.calls[c].pc = "joined", !.o.calls[c].awaits = s.o.ensureServerPromise]
    ELSE BeginAttempt(s, c)

\* The attempt without `if (!serviceRunning) throw` before procMgr.start()
PrepReturnedUnguarded(s, c, ok) ==
    IF ~ok
    THEN Fail(s, c)
    ELSE CallProcMgr([UpdatePhase([s EXCEPT !.o.pythonRuntimePrepared = TRUE],
                                  "starting_server", TRUE)
                          EXCEPT !.o.calls[c].pc = "starting", !.o.starts = @ + 1],
                     "start", c)

\* ensurePythonRuntimeReady after `await venvMgr.ensure()` (or
\* validateExternalPython), and the attempt after it
PrepReturned(s, c, ok) ==
    IF ~ok \/ ~s.o.serviceRunning
    THEN Fail(s, c)
    ELSE AfterPrep([s EXCEPT !.o.pythonRuntimePrepared = TRUE], c)

\* The attempt after `await procMgr.start()`
StartReturned(s, c, outcome) ==
    IF outcome = "failed"
    THEN Fail(s, c)
    ELSE LET t == [s EXCEPT !.o.calls[c].started = TRUE] IN
         IF ~t.o.serviceRunning
         THEN Fail(t, c)
         ELSE [UpdatePhase(t, "waiting_health", TRUE) EXCEPT !.o.calls[c].pc = "polling"]

\* health.start() and startupStatus.markReady
Ready(s) == [UpdatePhase(s, "ready", FALSE) EXCEPT !.h = HealthStart(@)]

\* The running branch stopping the worker when its probe times out
PollReturnedStopping(s, c, healthy) ==
    IF s.o.calls[c].pc = "hot"
    THEN LET r == Return(s, c, healthy, "hot") IN
         IF healthy THEN Ready(r)
         ELSE CallProcMgr(r, "stop", NULL)
    ELSE IF ~healthy \/ ~s.o.serviceRunning
         THEN Fail(s, c)
         ELSE SettleAttempt(Ready(s), c, TRUE)

\* ensureServerReady after `await waitForServerHealthy`, in the running
\* branch and in the attempt
PollReturned(s, c, healthy) ==
    IF s.o.calls[c].pc = "hot"
    THEN LET r == Return(s, c, healthy, "hot") IN
         IF healthy THEN Ready(r)
         ELSE IF s.o.calls[c].snap THEN r
         ELSE [UpdatePhase(r, "waiting_health", TRUE) EXCEPT !.o.begun = TRUE]
    ELSE IF ~healthy \/ ~s.o.serviceRunning
         THEN Fail(s, c)
         ELSE SettleAttempt(Ready(s), c, TRUE)

\* The service's stop() after `await procMgr.stop()`
ServiceStopReturned(s) ==
    [UpdatePhase(s, "idle", FALSE) EXCEPT !.o.service = "stopped"]

\* The caller awaiting a lifecycle call resumes with its outcome
Continue(s, owner, outcome) ==
    IF owner = ServiceOwner THEN ServiceStopReturned(s)
    ELSE IF s.o.calls[owner].pc = "starting" THEN StartReturned(s, owner, outcome)
    ELSE SettleAttempt(s, owner, FALSE)

\* The promise continuations (microtasks) released by the running macrotask
RECURSIVE Deliver(_)
Deliver(s) ==
    IF s.pm.results = <<>>
    THEN s
    ELSE LET r == Head(s.pm.results) IN
         Deliver(Continue([s EXCEPT !.pm.results = Tail(@)], r.owner, r.outcome))

\* The state a macrotask starts from
Sys(pm) ==
    [cfg |-> cfg, pm |-> pm, o |-> [orch EXCEPT !.returned = {}, !.failures = {}, !.begun = FALSE],
     h |-> health]
Now == Sys(Macrotask(procMgr))

\* A macrotask ends, its microtasks run
CommitSys(s) ==
    LET d == Deliver(s) IN
    /\ Len(d.pm.lifecycleQueue) <= MaxTasks
    /\ procMgr' = d.pm
    /\ orch' = d.o
    /\ health' = d.h

\* The same for a macrotask that no gateway request takes part in
Commit(s) ==
    /\ CommitSys(s)
    /\ UNCHANGED <<cfg, requests, fs, resolution, proxy, config, tracker>>

\* waitForServerHealthy returns true only if something answers on the port
CanAnswer(pm, healthy) == ~healthy \/ pm.alive # {}

\* ---------------------------------------------------------------- actions
\* start(), stop() or restart() called by a caller
Call(kind) ==
    /\ HasRoom(procMgr)
    /\ Commit(Sys(RunLifecycleTasks(Enqueue(Macrotask(procMgr), kind), cfg.maxRestarts)))

\* The unhealthy callback of the HealthChecker (index.ts createHealthChecker)
Unhealthy ==
    /\ cfg.restartOnCrash
    /\ IsRunning(procMgr)
    /\ HasRoom(procMgr)
    /\ Commit(Sys(RunLifecycleTasks(Enqueue(Macrotask(procMgr), "restart_health"),
                                    cfg.maxRestarts)))

\* killPortHolder settles, having found scan on the port, and startInternal
\* goes on to spawn() unless killPortHolder threw
KillPortHolderSettles(i, scan, throws) ==
    /\ i \in DOMAIN procMgr.lifecycleQueue
    /\ procMgr.lifecycleQueue[i].pc = "kph"
    /\ CanSettle(procMgr, KillPortHolder(scan).throws, throws)
    /\ LET k == KillPortHolder(scan)
           pm == [Macrotask(procMgr) EXCEPT
                     !.port = [inspected |-> scan.lsof, listeners |-> scan.listeners,
                               signals |-> k.signals]]
           s == Spawn(pm, throws)
           after == IF k.throws THEN Finish(pm, i, "failed")
                    ELSE Finish(s[2], i, IF s[1] THEN "spawned" ELSE "failed")
       IN  Commit(Sys(RunLifecycleTasks(after, cfg.maxRestarts)))

\* The same with a port that is free or held by a foreign process
KillPortHolderDone(i, foreign, throws) ==
    KillPortHolderSettles(i, [lsof |-> TRUE,
                              listeners |-> IF foreign THEN {"foreign"} ELSE {}], throws)

\* Child p emits 'exit'
Exit(p, elapsed) ==
    /\ p \in procMgr.alive
    /\ LET gone == [Macrotask(procMgr) EXCEPT !.alive = @ \ {p},
                                              !.emitted = {<<p, "exit">>}]
           handled == ExitHandler(gone, p, elapsed, cfg)
       IN  Commit(Sys(RunLifecycleTasks(ResumeStops(handled, p), cfg.maxRestarts)))

\* Child p emits 'error'
ProcError(p) ==
    /\ p \in procMgr.alive
    /\ Commit(Sys([ErrorHandler(Macrotask(procMgr), p) EXCEPT !.emitted = {<<p, "error">>}]))

\* stopInternal's 5 s timer fires: SIGKILL if still the handle, then finalize
GraceTimeout(i) ==
    /\ i \in DOMAIN procMgr.lifecycleQueue
    /\ procMgr.lifecycleQueue[i].pc = "exitwait"
    /\ Commit(Sys(RunLifecycleTasks(StopInternalTail(Macrotask(procMgr), i), cfg.maxRestarts)))

\* The delayed restart's timer fires
RestartTimerFires ==
    /\ procMgr.restartTimer
    /\ LET c == [Macrotask(procMgr) EXCEPT !.restartTimer = FALSE] IN
       IF TimerSkips(c)
       THEN Commit(Sys(c))
       ELSE /\ HasRoom(c)
            /\ Commit(Sys(RunLifecycleTasks(Enqueue(c, "start_timer"), cfg.maxRestarts)))

\* The health monitor, running, reports the worker unhealthy
MonitorUnhealthy ==
    /\ health.timer
    /\ Unhealthy

\* The host starts the service: applyConfig finds nothing to apply
ServiceStart ==
    /\ orch.service = "stopped"
    /\ Commit([Now EXCEPT !.o.serviceRunning = TRUE, !.o.service = "running"])

\* The host stops the service: stop() up to `await proxy.stop()`
ServiceStop ==
    /\ orch.service = "running"
    /\ Commit([Now EXCEPT !.o.serviceRunning = FALSE, !.o.service = "proxy_closing",
                          !.h = HealthStop(@)])

\* proxy.stop() resolves and the service's stop() calls procMgr.stop()
ProxyClosed ==
    /\ orch.service = "proxy_closing"
    /\ Commit(CallProcMgr([Now EXCEPT !.o.service = "server_stopping"], "stop", ServiceOwner))

\* ensureServerReady() called (a gated request, the tool, autoStart)
EnsureCall(c) ==
    /\ orch.calls[c].pc = "idle"
    /\ Commit(EnsureServerReady(Now, c))

\* A request arrives at the gateway of the running service; the gateway's
\* ensureUpstreamReady is ensureServerReady, called for request r as caller r
Route(r, route) ==
    /\ orch.service = "running"
    /\ requests[r].pc = "idle"
    /\ requests' = [requests EXCEPT ![r] = HandleRequest(route)]
    /\ IF Gated(route)
       THEN orch.calls[r].pc = "idle" /\ CommitSys(EnsureServerReady(Now, r))
       ELSE UNCHANGED <<procMgr, orch, health, proxy, config, tracker>>
    /\ UNCHANGED <<cfg, fs, resolution, proxy, config, tracker>>

\* The preparation of the Python runtime settles
PrepSettles(c, ok) ==
    /\ orch.calls[c].pc = "prep"
    /\ Commit(PrepReturned(Now, c, ok))

\* waitForServerHealthy settles
PollSettles(c, healthy) ==
    /\ orch.calls[c].pc \in {"hot", "polling"}
    /\ CanAnswer(procMgr, healthy)
    /\ Commit(PollReturned(Now, c, healthy))

\* ------------------------------------------------------------- output path
\* A path is absolute: the sequence of its names below the filesystem root.
\* The options of the tests' sandbox, and the directory the tests keep
\* outside the allowed roots
MaxSegs == 3
tmpDir == <<"tmp">>
systemTmpDir == <<"systmp">>
outputDir == <<"out">>
homeDir == <<"home">>
outsideDir == <<"outside">>

\* The names an outputPath is made of: the parent reference, a name that
\* only begins with two dots, and plain names
Segments == {"..", "..a", "a", "out", "outside"}
SegLists == UNION {[1..n -> Segments] : n \in 0..MaxSegs}

\* outputPath: undefined, "", blanks only, "/<segs>", "<segs>", "~/<segs>"
\* ("~" when segs is empty)
Absent == [kind |-> "absent", segs |-> <<>>]
OutputPaths ==
    {Absent, [kind |-> "empty", segs |-> <<>>], [kind |-> "blank", segs |-> <<>>]}
        \cup {[kind |-> "abs", segs |-> l] : l \in SegLists}
        \cup {[kind |-> "rel", segs |-> l] : l \in SegLists \ {<<>>}}
        \cup {[kind |-> "home", segs |-> l] : l \in SegLists}

\* path.resolve / path.join: "." is not followed, ".." leaves a directory
RECURSIVE Normalize(_, _)
Normalize(base, segs) ==
    IF segs = <<>> THEN base
    ELSE IF Head(segs) = ".."
         THEN Normalize(IF base = <<>> THEN base ELSE SubSeq(base, 1, Len(base) - 1),
                        Tail(segs))
         ELSE Normalize(Append(base, Head(segs)), Tail(segs))

\* path.dirname
Dirname(p) == IF p = <<>> THEN p ELSE SubSeq(p, 1, Len(p) - 1)

\* The length of the longest common prefix of two paths
RECURSIVE Common(_, _)
Common(a, b) ==
    IF a = <<>> \/ b = <<>> THEN 0
    ELSE IF Head(a) # Head(b) THEN 0
    ELSE 1 + Common(Tail(a), Tail(b))

\* path.relative
Relative(from, to) ==
    LET k == Common(from, to) IN
    [i \in 1..(Len(from) - k) |-> ".."] \o SubSeq(to, k + 1, Len(to))

\* relative.startsWith(".."), which never holds
StartsWithDotDotNever(relative) == FALSE

\* relative.startsWith(".."): decided by the first name of the relative path
StartsWithDotDot(relative) == relative # <<>> /\ relative[1] \in {"..", "..a"}

\* isPathWithin (path.relative never returns an absolute path on POSIX)
IsPathWithin(baseDir, candidatePath) ==
    LET relative == Relative(baseDir, candidatePath) IN
    relative = <<>> \/ ~StartsWithDotDot(relative)

\* resolveOutputPath: expandUserPath included; the default name is
\* `mlx-audio-${now()}.mp3`
ResolveOutputPath(outputPath) ==
    CASE outputPath.kind \in {"absent", "empty"} ->
             [ok |-> TRUE, path |-> Append(tmpDir, "mlx-audio-now.mp3")]
      [] outputPath.kind = "blank" -> [ok |-> FALSE, path |-> <<>>]
      [] outputPath.kind = "abs" -> [ok |-> TRUE, path |-> Normalize(<<>>, outputPath.segs)]
      [] outputPath.kind = "home" -> [ok |-> TRUE, path |-> Normalize(homeDir, outputPath.segs)]
      [] OTHER -> [ok |-> TRUE, path |-> Normalize(outputDir, outputPath.segs)]

\* selectAllowedRoot: the roots of getAllowedRoots that contain the target,
\* in order
SelectAllowedRoot(targetPath) ==
    SelectSeq(<<tmpDir, systemTmpDir, outputDir>>,
              LAMBDA root : IsPathWithin(root, targetPath))

\* The filesystem. A symbolic link leads to outsideDir.
Kind(f, p) == IF p = <<>> THEN "dir" ELSE IF p \in DOMAIN f THEN f[p] ELSE "none"

\* fs.realpath: the path with the links of all its components followed
RECURSIVE RealFrom(_, _, _)
RealFrom(f, cur, rest) ==
    IF rest = <<>> THEN cur
    ELSE LET n == Append(cur, Head(rest)) IN
         IF Kind(f, n) = "link" THEN RealFrom(f, outsideDir, Tail(rest))
         ELSE RealFrom(f, n, Tail(rest))

Real(f, p) == RealFrom(f, <<>>, p)

\* The node a path names, the links of its parent directories followed
Node(f, p) == IF p = <<>> THEN p ELSE Append(Real(f, Dirname(p)), p[Len(p)])

\* fs.lstat(p): the kind of the node, "none" for ENOENT
LKind(f, p) == Kind(f, Node(f, p))

\* fs.mkdir(p): its outcome and the filesystem after it
MkdirOutcome(f, p) ==
    IF LKind(f, p) # "none" THEN "EEXIST"
    ELSE IF Kind(f, Real(f, Dirname(p))) # "dir" THEN "ENOENT"
    ELSE "ok"

Mkdir(f, p) == [x \in DOMAIN f \cup {Node(f, p)} |-> IF x = Node(f, p) THEN "dir" ELSE f[x]]

\* The sandbox of the tests: the roots, the home and the outside directory
BaseFs == [p \in {tmpDir, systemTmpDir, outputDir, homeDir, outsideDir} |-> "dir"]

InitResolution ==
    [ pc |-> "idle", outputPath |-> Absent, targetPath |-> <<>>, allowedRoot |-> <<>>,
      parentDir |-> <<>>, segments |-> <<>>, current |-> <<>>, rootRealPath |-> <<>>,
      result |-> "none" ]

\* The call settles: it returns targetPath ("ok") or throws
Settle(res, result) ==
    [res EXCEPT !.pc = "returned", !.result = result, !.segments = <<>>,
                !.current = <<>>, !.rootRealPath = <<>>]

\* ensureSafeDirectoryTree: the next turn of its loop, or its return into
\* assertRealPathWithinRoot
NextSegment(res) ==
    IF res.segments = <<>>
    THEN [res EXCEPT !.pc = "realpath_root", !.current = <<>>]
    ELSE [res EXCEPT !.current = Normalize(res.current, <<Head(res.segments)>>),
                     !.segments = Tail(res.segments), !.pc = "mkdir_segment"]

\* resolveSecureOutputPath is called: it runs up to its first await, the
\* fs.mkdir of the root
Resolve(outputPath) ==
    /\ resolution.pc = "idle"
    /\ resolution' =
           LET res == [InitResolution EXCEPT !.outputPath = outputPath]
               t == ResolveOutputPath(outputPath)
               roots == SelectAllowedRoot(t.path)
           IN  IF ~t.ok THEN Settle(res, "empty")
               ELSE IF roots = <<>>
               THEN Settle([res EXCEPT !.targetPath = t.path], "not_under")
               ELSE [res EXCEPT !.targetPath = t.path, !.allowedRoot = roots[1],
                                !.parentDir = Dirname(t.path), !.pc = "mkdir_root"]
    /\ UNCHANGED <<cfg, procMgr, health, requests, orch, fs, proxy, config, tracker>>

\* fs.mkdir(rootDir, {recursive: true}) settles
MkdirRootDone ==
    /\ resolution.pc = "mkdir_root"
    /\ fs' = IF LKind(fs, resolution.allowedRoot) = "none"
             THEN Mkdir(fs, resolution.allowedRoot) ELSE fs
    /\ resolution' = [resolution EXCEPT !.pc = "stat_root"]
    /\ UNCHANGED <<cfg, procMgr, health, requests, orch, proxy, config, tracker>>

\* fs.stat(rootDir) settles: ensureSafeDirectoryTree up to its loop
StatRootDone ==
    /\ resolution.pc = "stat_root"
    /\ resolution' =
           LET res == resolution
               relative == Relative(res.allowedRoot, res.parentDir)
           IN  IF Kind(fs, Real(fs, res.allowedRoot)) # "dir"
               THEN Settle(res, "root_not_directory")
               ELSE IF relative = <<>> THEN [res EXCEPT !.pc = "realpath_root"]
               ELSE IF StartsWithDotDot(relative) THEN Settle(res, "outside_root")
               ELSE NextSegment([res EXCEPT !.segments = relative,
                                            !.current = res.allowedRoot])
    /\ UNCHANGED <<cfg, procMgr, health, requests, orch, fs, proxy, config, tracker>>

\* fs.mkdir(current) settles: the try / catch around it
MkdirSegmentDone ==
    /\ resolution.pc = "mkdir_segment"
    /\ fs' = IF MkdirOutcome(fs, resolution.current) = "ok"
             THEN Mkdir(fs, resolution.current) ELSE fs
    /\ resolution' =
           LET outcome == MkdirOutcome(fs, resolution.current) IN
           IF outcome = "ok" THEN NextSegment(resolution)
           ELSE IF outcome = "EEXIST" THEN [resolution EXCEPT !.pc = "lstat_segment"]
           ELSE Settle(resolution, "mkdir_failed")
    /\ UNCHANGED <<cfg, procMgr, health, requests, orch, proxy, config, tracker>>

\* fs.lstat(current) settles
LstatSegmentDone ==
    /\ resolution.pc = "lstat_segment"
    /\ resolution' =
           LET kind == LKind(fs, resolution.current) IN
           IF kind = "link" THEN Settle(resolution, "symlink_segment")
           ELSE IF kind # "dir" THEN Settle(resolution, "non_directory_segment")
           ELSE NextSegment(resolution)
    /\ UNCHANGED <<cfg, procMgr, health, requests, orch, fs, proxy, config, tracker>>

\* fs.realpath(rootDir) settles
RealpathRootDone ==
    /\ resolution.pc = "realpath_root"
    /\ resolution' = [resolution EXCEPT !.rootRealPath = Real(fs, resolution.allowedRoot),
                                        !.pc = "realpath_parent"]
    /\ UNCHANGED <<cfg, procMgr, health, requests, orch, fs, proxy, config, tracker>>

\* fs.realpath(parentDir) settles: assertRealPathWithinRoot
RealpathParentDone ==
    /\ resolution.pc = "realpath_parent"
    /\ resolution' =
           IF ~IsPathWithin(resolution.rootRealPath, Real(fs, resolution.parentDir))
           THEN Settle(resolution, "outside_via_symlinks")
           ELSE [resolution EXCEPT !.pc = "lstat_target"]
    /\ UNCHANGED <<cfg, procMgr, health, requests, orch, fs, proxy, config, tracker>>

\* fs.lstat(targetPath) settles: assertTargetIsSafe, and the return
LstatTargetDone ==
    /\ resolution.pc = "lstat_target"
    /\ resolution' =
           LET kind == LKind(fs, resolution.targetPath) IN
           IF kind = "none" THEN Settle(resolution, "ok")
           ELSE IF kind = "link" THEN Settle(resolution, "target_symlink")
           ELSE IF kind # "file" THEN Settle(resolution, "not_regular_file")
           ELSE Settle(resolution, "ok")
    /\ UNCHANGED <<cfg, procMgr, health, requests, orch, fs, proxy, config, tracker>>

\* Another process replaces the node at a path below a root while the
\* resolution is running: by a link to outsideDir, or by a directory
Replace(p, kind) ==
    /\ resolution.pc \notin {"idle", "returned"}
    /\ LKind(fs, p) # kind
    /\ fs' = [x \in DOMAIN fs \cup {p} |-> IF x = p THEN kind ELSE fs[x]]
    /\ UNCHANGED <<cfg, procMgr, health, requests, orch, resolution, proxy, config, tracker>>

\* ------------------------------------------------------ gateway and config
\* proxy is the TtsProxy: server is this.server, a server being named by the
\* call that created it and the port it was given; listening are the servers
\* accepting connections; closing the stop() calls awaiting the callback of
\* server.close(); starts the start() calls awaiting assertProxyPortAvailable.
\* config is the configuration of index.ts: hostPort is the public port in
\* the host's configuration (readRawConfig), port the public port of cfg,
\* portBinding and proxy.cfg, queue the applyConfig calls that have not
\* settled (configQueue), reloaded the ports before and after the last
\* applyConfig that changed the public port while the service was running.
\* The worker is not started here (autoStart false, no request), so
\* procMgr.stop() finds no handle and ensureServerPromise is null.
MaxPorts == 2
Ports == 1..MaxPorts
NoServer == [by |-> "none", port |-> 0]
NoReload == [old |-> 0, new |-> 0]

InitProxy == [server |-> NoServer, listening |-> {}, closing |-> {}, starts |-> {}]
InitConfig == [hostPort |-> 1, port |-> 1, queue |-> <<>>, reloaded |-> NoReload]

\* ------------------------------------------------ StartupStatusTracker
\* The tracker with its cache-size poller. this.pollTimer refers to at most
\* one pending timer; a timer that schedulePoll() replaced without clearing
\* it is still pending and is counted in orphans. polling is this.polling:
\* a scan of the model cache is in flight. percent and estimate are empty
\* for null. stopped records that markReady(), markError() or markIdle()
\* was the last of the mark calls that concern the poller (markWaitingHealth
\* is the other).
MaxBytes == 3
MaxTimers == 2

\* estimateModelBytes(model) for a model of MODEL_DOWNLOAD_ESTIMATES
EstimatedBytes == 2

TrackerPhases ==
    {"idle", "preparing_python", "starting_server", "waiting_health", "ready", "error"}

InitTracker ==
    [ phase |-> "idle", inProgress |-> FALSE, percent |-> {},
      estimate |-> {EstimatedBytes}, pollTimer |-> FALSE, orphans |-> 0,
      polling |-> FALSE, stopped |-> FALSE ]

\* The timers and the scan that will come back to the tracker
Chains(t) ==
    (IF t.pollTimer THEN 1 ELSE 0) + t.orphans + (IF t.polling THEN 1 ELSE 0)

\* Math.max(0, Math.min(99, Math.floor((bytes / estimated) * 100)))
BoundedPercent(bytes, estimated) ==
    LET rawPercent == (bytes * 100) \div estimated
        capped == IF rawPercent < 99 THEN rawPercent ELSE 99
    IN  IF capped > 0 THEN capped ELSE 0

\* schedulePoll: this.pollTimer = setTimeout(...), whatever it referred to
SchedulePoll(t) ==
    [t EXCEPT !.orphans = IF t.pollTimer THEN @ + 1 ELSE @, !.pollTimer = TRUE]

\* startPolling
StartPolling(t) ==
    IF t.pollTimer THEN t ELSE SchedulePoll(t)

\* stopPolling: the timer this.pollTimer refers to is cleared, no other
StopPolling(t) ==
    [t EXCEPT !.pollTimer = FALSE]

\* begin
Begin(t) ==
    [t EXCEPT !.phase = "preparing_python", !.inProgress = TRUE, !.percent = {}]

\* markPreparingPython, markStartingServer: updatePhase alone
MarkInProgress(t, phase) ==
    [t EXCEPT !.phase = phase, !.inProgress = TRUE]

\* markWaitingHealth
MarkWaitingHealth(t) ==
    StartPolling([t EXCEPT !.phase = "waiting_health", !.inProgress = TRUE,
                           !.stopped = FALSE])

\* markReady
MarkReady(t) ==
    StopPolling([t EXCEPT !.phase = "ready", !.inProgress = FALSE,
                          !.percent = IF @ # {} THEN {100} ELSE @,
                          !.stopped = TRUE])

\* markError, markIdle
MarkStopped(t, phase) ==
    StopPolling([t EXCEPT !.phase = phase, !.inProgress = FALSE, !.stopped = TRUE])

\* The .finally() of the timer's callback
Reschedule(t) ==
    IF t.inProgress /\ t.phase = "waiting_health" THEN SchedulePoll(t) ELSE t

\* One of the calls index.ts makes on the tracker: begin() by an attempt or
\* by the running-process branch after a failed poll, markPreparingPython()
\* and markStartingServer() by an attempt, markWaitingHealth() by an attempt
\* or by a caller that found the startup in progress, markReady() after a
\* healthy poll, markError() and markIdle() at any time.
TrackerCalled(call) ==
    /\ call \in {"markPreparingPython", "markStartingServer", "markWaitingHealth"}
           => tracker.inProgress
    /\ (call = "markWaitingHealth" /\ ~tracker.pollTimer) => Chains(tracker) < MaxTimers
    /\ tracker' =
          CASE call = "begin" -> Begin(tracker)
            [] call = "markPreparingPython" -> MarkInProgress(tracker, "preparing_python")
            [] call = "markStartingServer" -> MarkInProgress(tracker, "starting_server")
            [] call = "markWaitingHealth" -> MarkWaitingHealth(tracker)
            [] call = "markReady" -> MarkReady(tracker)
            [] call = "markError" -> MarkStopped(tracker, "error")
            [] OTHER -> MarkStopped(tracker, "idle")
    /\ UNCHANGED <<cfg, procMgr, health, requests, orch, fs, resolution, proxy, config>>

\* pollCacheSize up to its await: it returns at once while a scan is in
\* flight or the phase is not waiting_health
PollCacheSize(t) ==
    IF t.polling \/ ~(t.inProgress /\ t.phase = "waiting_health")
    THEN Reschedule(t)
    ELSE [t EXCEPT !.polling = TRUE]

\* A pending timer fires, the one this.pollTimer refers to or another: the
\* callback sets this.pollTimer to null and calls pollCacheSize
PollTimerFires(referenced) ==
    /\ IF referenced THEN tracker.pollTimer ELSE tracker.orphans > 0
    /\ LET fired == IF referenced \/ tracker.pollTimer
                    THEN [tracker EXCEPT !.pollTimer = FALSE]
                    ELSE [tracker EXCEPT !.orphans = @ - 1]
       IN  tracker' = PollCacheSize(fired)
    /\ UNCHANGED <<cfg, procMgr, health, requests, orch, fs, resolution, proxy, config>>

\* getDirectorySizeBytes settles: the rest of pollCacheSize, then the
\* .finally() of the callback that called it
ScanSettles(bytes, ok) ==
    /\ tracker.polling
    /\ LET scanned == IF ok /\ tracker.estimate # {}
                      THEN [tracker EXCEPT !.percent =
                               {BoundedPercent(bytes, CHOOSE e \in tracker.estimate : TRUE)}]
                      ELSE tracker
       IN  tracker' = Reschedule([scanned EXCEPT !.polling = FALSE])
    /\ UNCHANGED <<cfg, procMgr, health, requests, orch, fs, resolution, proxy, config>>

\* The state the closures of register() and the TtsProxy share
World == [s |-> Now, p |-> proxy, c |-> config]

\* TtsProxy.start up to `await this.assertProxyPortAvailable(publicPort)`;
\* with a server it returns at once
ProxyStart(w, by) ==
    IF w.p.server # NoServer
    THEN w
    ELSE [w EXCEPT !.p.starts = @ \cup {[by |-> by, port |-> w.c.port]}]

\* TtsProxy.stop up to the callback of server.close(); without a server it
\* returns at once
ProxyStop(w, by) ==
    IF w.p.server = NoServer
    THEN w
    ELSE [w EXCEPT !.p.listening = @ \ {w.p.server},
                   !.p.closing = @ \cup {[server |-> w.p.server, by |-> by]}]

\* procMgr.stop() with no handle
StopNoWorker(w) ==
    [w EXCEPT !.s.pm = RunLifecycleTasks(Enqueue(@, "stop"), w.s.cfg.maxRestarts)]

\* service.start after `await applyConfig("service start")`
ServiceStartTail(w, ok) ==
    IF ~ok
    THEN [w EXCEPT !.s.o.serviceRunning = FALSE, !.s.o.service = "stopped"]
    ELSE LET r == [w EXCEPT !.s.o.serviceRunning = TRUE] IN
         [ProxyStart(r, "service") EXCEPT
             !.s.o.service = IF r.p.server # NoServer THEN "running" ELSE "proxy_starting"]

\* service.stop after `await proxy.stop()`
ServiceStopTail(w) ==
    [StopNoWorker(w) EXCEPT !.s.o.service = "stopped",
                            !.s.o.startupStatus = [phase |-> "idle", inProgress |-> FALSE]]

RECURSIVE RunConfigTasks(_)

\* runConfigTask's finally: the task at the head settles, its caller resumes
\* and the next task runs
Release(w, ok) ==
    LET t == Head(w.c.queue)
        moved == ok /\ t.pc # "queued" /\ w.s.o.serviceRunning /\ t.next # t.old
        r == [w EXCEPT !.c.queue = Tail(@),
                       !.c.reloaded = IF moved THEN [old |-> t.old, new |-> t.next] ELSE @]
    IN  RunConfigTasks(IF t.kind = "service start" THEN ServiceStartTail(r, ok) ELSE r)

\* applyConfig after `await proxy.stop()`
ApplyConfigTail(w) ==
    LET t == Head(w.c.queue)
        a == [StopNoWorker(w) EXCEPT
                 !.c.port = t.next,
                 !.s.pm = ResetCrashCounter(@),
                 !.s.o.startupStatus = [phase |-> "idle", inProgress |-> FALSE],
                 !.s.h = InitHealth]
    IN  IF a.s.o.serviceRunning /\ a.p.server = NoServer
        THEN [ProxyStart(a, "apply") EXCEPT !.c.queue[1].pc = "proxy_start"]
        ELSE Release([a EXCEPT !.c.queue[1].pc = "applied"], TRUE)

\* applyConfig's task up to `await proxy.stop()`
ApplyConfig(w) ==
    LET t == Head(w.c.queue) IN
    IF ~t.force /\ w.c.hostPort = w.c.port
    THEN Release(w, TRUE)
    ELSE LET h == [w EXCEPT !.s.h = HealthStop(@),
                            !.c.reloaded = NoReload,
                            !.c.queue[1].old = w.c.port,
                            !.c.queue[1].next = w.c.hostPort]
         IN  IF h.p.server = NoServer
             THEN ApplyConfigTail(h)
             ELSE [ProxyStop(h, "apply") EXCEPT !.c.queue[1].pc = "proxy_stop"]

\* runConfigTask: `await previous; await task()`
RunConfigTasks(w) ==
    IF w.c.queue = <<>> \/ Head(w.c.queue).pc # "queued"
    THEN w
    ELSE ApplyConfig(w)

\* applyConfig called
RunConfigTask(w, kind, force) ==
    RunConfigTasks([w EXCEPT !.c.queue =
        Append(@, [kind |-> kind, force |-> force, pc |-> "queued", old |-> 0, next |-> 0])])

\* The macrotask ends
CommitWorld(w) ==
    /\ CommitSys(w.s)
    /\ proxy' = w.p
    /\ config' = w.c
    /\ UNCHANGED <<cfg, requests, fs, resolution, tracker>>

\* The host's configuration gets another public port
HostEdits(port) ==
    /\ port # config.hostPort
    /\ config' = [config EXCEPT !.hostPort = port]
    /\ UNCHANGED <<cfg, procMgr, health, requests, orch, fs, resolution, proxy, tracker>>

\* The host starts the service
ServiceStartCalled ==
    /\ orch.service = "stopped"
    /\ CommitWorld(RunConfigTask([World EXCEPT !.s.o.service = "applying"],
                                 "service start", FALSE))

\* The host stops the started service
ServiceStopCalled ==
    /\ orch.service = "running"
    /\ LET w == [World EXCEPT !.s.o.serviceRunning = FALSE, !.s.h = HealthStop(@),
                              !.c.reloaded = NoReload]
       IN  IF w.p.server = NoServer
           THEN CommitWorld(ServiceStopTail(w))
           ELSE CommitWorld([ProxyStop(w, "service") EXCEPT !.s.o.service = "proxy_closing"])

\* `/mlx-tts reload` (the tool's reload action), with no config task pending
ReloadCommand ==
    /\ config.queue = <<>>
    /\ CommitWorld(RunConfigTask(World, "command reload", TRUE))

\* The callback of server.close(): `this.server = null; resolve()`
ServerClosed(server) ==
    /\ \E e \in proxy.closing : e.server = server
    /\ LET by == {e.by : e \in {x \in proxy.closing : x.server = server}}
           w == [World EXCEPT !.p.server = NoServer,
                              !.p.closing = {x \in @ : x.server # server}]
           u == IF "service" \in by THEN ServiceStopTail(w) ELSE w
       IN  CommitWorld(IF "apply" \in by THEN ApplyConfigTail(u) ELSE u)

\* assertProxyPortAvailable settles for the start() call e and start() goes on
\* to listen. lsof: lsof could be run; foreign: another program listens on
\* the port.
PortChecked(e, lsof, foreign) ==
    /\ e \in proxy.starts
    /\ LET inUse == foreign \/ \E l \in proxy.listening : l.port = e.port
           ok == ~inUse
           w == [World EXCEPT
                    !.p.starts = @ \ {e},
                    !.p.server = IF lsof /\ inUse THEN @ ELSE e,
                    !.p.listening = IF ok THEN @ \cup {e} ELSE @]
       IN  IF e.by = "apply"
           THEN CommitWorld(Release(w, ok))
           ELSE CommitWorld([w EXCEPT !.s.o.service = IF ok THEN "running" ELSE "stopped",
                                      !.s.o.serviceRunning = ok])

\* ---------------------------------------------------------- specifications
\* The supervisor on its own, under every configuration
Init ==
    /\ cfg \in [restartOnCrash : BOOLEAN, maxRestarts : 0..MaxRestartsCfg]
    /\ procMgr = InitProcMgr
    /\ health = InitHealth
    /\ requests = [r \in RequestIds |-> InitRequest]
    /\ orch = InitOrch
    /\ fs = BaseFs
    /\ resolution = InitResolution
    /\ proxy = InitProxy
    /\ config = InitConfig
    /\ tracker = InitTracker

Next ==
    \/ \E kind \in ManualKinds : Call(kind)
    \/ Unhealthy
    \/ \E i \in Slots, foreign \in BOOLEAN, throws \in BOOLEAN :
          KillPortHolderDone(i, foreign, throws)
    \/ \E p \in Pids, elapsed \in Uptimes : Exit(p, elapsed)
    \/ \E i \in Slots : GraceTimeout(i)
    \/ RestartTimerFires

Spec == Init /\ [][Next]_vars


\* One configuration (restartOnCrash on), nothing started
InitDefault ==
    /\ cfg = [restartOnCrash |-> TRUE, maxRestarts |-> MaxRestartsCfg]
    /\ procMgr = InitProcMgr
    /\ health = InitHealth
    /\ requests = [r \in RequestIds |-> InitRequest]
    /\ orch = InitOrch
    /\ fs = BaseFs
    /\ resolution = InitResolution
    /\ proxy = InitProxy
    /\ config = InitConfig
    /\ tracker = InitTracker

\* The supervisor whose children also emit 'error'
NextEvents ==
    \/ \E kind \in ManualKinds : Call(kind)
    \/ Unhealthy
    \/ \E i \in Slots, foreign \in BOOLEAN, throws \in BOOLEAN :
          KillPortHolderDone(i, foreign, throws)
    \/ \E p \in Pids, elapsed \in Uptimes : Exit(p, elapsed)
    \/ \E p \in Pids : ProcError(p)
    \/ \E i \in Slots : GraceTimeout(i)
    \/ RestartTimerFires

SpecEvents == InitDefault /\ [][NextEvents]_vars

\* The supervisor starting on a port that other processes may hold
NextPort ==
    \/ \E kind \in ManualKinds : Call(kind)
    \/ \E i \in Slots, scan \in PortScans : KillPortHolderSettles(i, scan, FALSE)
    \/ \E p \in Pids, elapsed \in Uptimes : Exit(p, elapsed)
    \/ \E i \in Slots : GraceTimeout(i)
    \/ RestartTimerFires

SpecPort == InitDefault /\ [][NextPort]_vars

\* The lifecycle task at the head of the queue is suspended at the await pc
HeadAwaits(pc) == procMgr.lifecycleQueue # <<>> /\ procMgr.lifecycleQueue[1].pc = pc

\* The await of the task at the head of the queue settles and the task goes on
HeadResumes(pc) ==
    /\ HeadAwaits(pc)
    /\ procMgr'.lifecycleQueue = <<>> \/ procMgr'.lifecycleQueue[1] # procMgr.lifecycleQueue[1]

\* The same, with what the timers of the code guarantee, as weak fairness of
\* the two awaits: stopInternal's wait ends with the exit or with its 5 s
\* timer, and killPortHolder, whose commands and waits are all bounded by
\* timeouts, settles
SpecStop ==
    /\ InitDefault
    /\ [][NextPort]_vars
    /\ []<>~HeadAwaits("exitwait") \/ []<><<HeadResumes("exitwait")>>_vars
    /\ []<>~HeadAwaits("kph") \/ []<><<HeadResumes("kph")>>_vars

\* The supervisor with starts that fail, on a foreign port holder or in
\* spawn(), and the two awaits of its tasks ending as their timers guarantee
SpecQueue ==
    /\ InitDefault
    /\ [][Next]_vars
    /\ []<>~HeadAwaits("exitwait") \/ []<><<HeadResumes("exitwait")>>_vars
    /\ []<>~HeadAwaits("kph") \/ []<><<HeadResumes("kph")>>_vars

\* The health monitor on its own, as its tests drive it
NextHealth ==
    \/ HCStart
    \/ HCStop
    \/ HCCheck
    \/ HCTick
    \/ \E origin \in Origins, outcome \in PingOutcomes : HCPingSettles(origin, outcome)

SpecHealth == InitDefault /\ [][NextHealth]_vars

\* The gateway on its own, ensureUpstreamReady a stub as in its tests
NextGateway ==
    \/ \E r \in RequestIds, route \in Routes : Arrive(r, route)
    \/ \E r \in RequestIds, ok \in BOOLEAN, detail \in Details : EnsureSettles(r, ok, detail)
    \/ \E r \in RequestIds, len \in ChunkLengths : BodyData(r, len)
    \/ \E r \in RequestIds, body \in Bodies : BodyEnd(r, body)

SpecGateway == InitDefault /\ [][NextGateway]_vars

\* The gateway relaying: requests with a well-formed body, their outbound
\* requests and their clients
RelayBody ==
    [kind |-> "object",
     fields |-> [input |-> [t |-> "string", v |-> <<" ", "h", "i">>],
                 voice |-> NoValue, model |-> NoValue, speed |-> NoValue]]

NextRelay ==
    \/ \E r \in RequestIds, route \in Routes : Arrive(r, route)
    \/ \E r \in RequestIds, ok \in BOOLEAN : EnsureSettles(r, ok, "health_timeout")
    \/ \E r \in RequestIds : BodyEnd(r, RelayBody)
    \/ \E r \in RequestIds, statusCode \in {200, 500} : UpstreamResponds(r, statusCode)
    \/ \E r \in RequestIds : UpstreamData(r)
    \/ \E r \in RequestIds : UpstreamEnds(r)
    \/ \E r \in RequestIds : UpstreamFails(r)
    \/ \E r \in RequestIds : ClientDisconnects(r)

SpecRelay == InitDefault /\ [][NextRelay]_vars

\* The service: the orchestrator driving the supervisor and the monitor
InitReadiness ==
    /\ cfg \in [restartOnCrash : BOOLEAN, maxRestarts : {1}]
    /\ procMgr = InitProcMgr
    /\ health = InitHealth
    /\ requests = [r \in RequestIds |-> InitRequest]
    /\ orch = InitOrch
    /\ fs = BaseFs
    /\ resolution = InitResolution
    /\ proxy = InitProxy
    /\ config = InitConfig
    /\ tracker = InitTracker

NextReadiness ==
    \/ ServiceStart
    \/ ServiceStop
    \/ ProxyClosed
    \/ \E c \in Callers : EnsureCall(c)
    \/ \E c \in Callers, ok \in BOOLEAN : PrepSettles(c, ok)
    \/ \E c \in Callers, healthy \in BOOLEAN : PollSettles(c, healthy)
    \/ MonitorUnhealthy
    \/ \E i \in Slots, foreign \in BOOLEAN, throws \in BOOLEAN :
          KillPortHolderDone(i, foreign, throws)
    \/ \E p \in Pids, elapsed \in Uptimes : Exit(p, elapsed)
    \/ \E i \in Slots : GraceTimeout(i)
    \/ RestartTimerFires

SpecReadiness == InitReadiness /\ [][NextReadiness]_vars

\* The service with its gateway and the configuration applied to it, the
\* worker not started
NextReload ==
    \/ \E port \in Ports : HostEdits(port)
    \/ ServiceStartCalled
    \/ ServiceStopCalled
    \/ ReloadCommand
    \/ \E server \in [by : {"service", "apply"}, port : Ports] : ServerClosed(server)
    \/ \E e \in [by : {"service", "apply"}, port : Ports], lsof \in BOOLEAN, foreign \in BOOLEAN :
          PortChecked(e, lsof, foreign)

SpecReload == InitReadiness /\ [][NextReload]_vars

\* The service with its gateway: requests are routed, gated ones call
\* ensureServerReady
NextRouted ==
    \/ ServiceStart
    \/ ServiceStop
    \/ ProxyClosed
    \/ \E r \in RequestIds, route \in Routes : Route(r, route)
    \/ \E c \in Callers, ok \in BOOLEAN : PrepSettles(c, ok)
    \/ \E c \in Callers, healthy \in BOOLEAN : PollSettles(c, healthy)
    \/ MonitorUnhealthy
    \/ \E i \in Slots, foreign \in BOOLEAN, throws \in BOOLEAN :
          KillPortHolderDone(i, foreign, throws)
    \/ \E p \in Pids, elapsed \in Uptimes : Exit(p, elapsed)
    \/ \E i \in Slots : GraceTimeout(i)
    \/ RestartTimerFires

SpecRouted == InitReadiness /\ [][NextRouted]_vars

\* resolveSecureOutputPath called once in a sandbox in which out/a is
\* missing, a directory, a link to outsideDir or a file
InitOutput ==
    /\ cfg = [restartOnCrash |-> TRUE, maxRestarts |-> MaxRestartsCfg]
    /\ procMgr = InitProcMgr
    /\ health = InitHealth
    /\ requests = [r \in RequestIds |-> InitRequest]
    /\ orch = InitOrch
    /\ fs \in {BaseFs} \cup
            {[p \in DOMAIN BaseFs \cup {<<"out", "a">>} |->
                 IF p = <<"out", "a">> THEN kind ELSE "dir"] :
                    kind \in {"dir", "link", "file"}}
    /\ resolution = InitResolution
    /\ proxy = InitProxy
    /\ config = InitConfig
    /\ tracker = InitTracker

NextOutput ==
    \/ \E outputPath \in OutputPaths : Resolve(outputPath)
    \/ MkdirRootDone
    \/ StatRootDone
    \/ MkdirSegmentDone
    \/ LstatSegmentDone
    \/ RealpathRootDone
    \/ RealpathParentDone
    \/ LstatTargetDone

SpecOutput == InitOutput /\ [][NextOutput]_vars

\* The same call, for "a/a" or "a/out/a", while another process replaces
\* directories below outputDir
NextOutputRace ==
    \/ \E l \in {<<"a", "a">>, <<"a", "out", "a">>} : Resolve([kind |-> "rel", segs |-> l])
    \/ MkdirRootDone
    \/ StatRootDone
    \/ MkdirSegmentDone
    \/ LstatSegmentDone
    \/ RealpathRootDone
    \/ RealpathParentDone
    \/ LstatTargetDone
    \/ \E p \in {<<"out", "a">>, <<"out", "a", "out">>}, kind \in {"dir", "link"} :
          Replace(p, kind)

SpecOutputRace == InitOutput /\ [][NextOutputRace]_vars

\* ------------------------------------------------------------------ claims
Settled == {procMgr.settled[n] : n \in DOMAIN procMgr.settled}
Queue == procMgr.lifecycleQueue
RunningTasks == {i \in DOMAIN Queue : Queue[i].pc # "queued"}

\* C1: at most one process handle is live: a handle is never replaced by
\* another one (it is only dropped), and spawn() called while a handle exists
\* returns false and changes nothing.
C1_SingleHandle ==
    [][ /\ procMgr.proc # NULL => procMgr'.proc \in {procMgr.proc, NULL}
        /\ procMgr'.proc # NULL =>
              /\ Spawn(procMgr', FALSE) = <<FALSE, procMgr'>>
              /\ procMgr'.proc \in procMgr'.alive ]_vars

\* A start() arrived while a handle existed and was skipped, the handle kept.
C1_Witness ==
    /\ procMgr.proc # NULL
    /\ \E e \in Settled : e.kind = "start" /\ e.outcome = "skipped"

\* C2: the bodies of start(), stop() and restart() never interleave: at most
\* one lifecycle task is past its `await previous`, it is the oldest unsettled
\* one, and a task that settles has no unsettled task issued before it.
C2_Serialized ==
    /\ Cardinality(RunningTasks) <= 1
    /\ \A i \in RunningTasks : i = 1
    /\ \A e \in Settled : e.ahead = 0

\* Three concurrent callers: one task runs, the two behind it wait.
C2_Witness ==
    /\ Len(Queue) >= 3
    /\ Queue[1].pc # "queued"
    /\ Queue[2].pc = "queued"
    /\ Queue[3].pc = "queued"

\* C3: a stop() issued while a start() was unsettled settles only after every
\* call issued before it (that start() included) has settled, and when it
\* settles the handle is null.
C3_StopAfterStart ==
    \A e \in Settled :
        (e.kind = "stop" /\ e.behindStart) => (e.ahead = 0 /\ procMgr.proc = NULL)

\* A stop() issued during a start() settles in the macrotask in which the
\* grace timer or the exit of the child that start() spawned ends its wait.
C3_Witness ==
    /\ \E e \in Settled : e.kind = "stop" /\ e.behindStart
    /\ procMgr.proc = NULL
    /\ procMgr.alive # {}

Attempts == {c \in Callers : orch.calls[c].pc \in AttemptStages}

\* C4: however many calls of ensureServerReady() overlap while the worker is
\* cold, at most one attempt is pending, the calls made meanwhile wait for it,
\* and between them the attempts have prepared the environment at most once
\* and called procMgr.start() at most once, exactly once each when the
\* attempt waits for the worker's health.
C4_OneColdStart ==
    /\ Cardinality(Attempts) <= 1
    /\ orch.preps <= 1
    /\ orch.starts <= 1
    /\ \A c \in Callers :
          /\ orch.calls[c].pc = "joined" => orch.calls[c].awaits \in Attempts
          /\ orch.calls[c].pc \in AttemptStages => orch.ensureServerPromise = c
          /\ orch.calls[c].pc = "polling" => (orch.preps = 1 /\ orch.starts = 1)

\* Every caller has called: one attempt has prepared the environment and
\* spawned the worker, the other calls wait for it.
C4_Witness ==
    /\ \E c \in Callers : orch.calls[c].pc = "polling"
    /\ \A c \in Callers : orch.calls[c].pc \in {"polling", "joined"}
    /\ orch.preps = 1
    /\ orch.starts = 1
    /\ procMgr.proc # NULL

\* C5: a request on a gated route has nothing sent to the worker and nothing
\* answered while its ensureUpstreamReady() is pending, is forwarded only
\* after it resolved, and after a rejection is answered 503 with the message
\* of the rejection and never forwarded.
C5_Gated ==
    \A r \in RequestIds :
        LET q == requests[r] IN
        (q.pc # "idle" /\ Gated(q.route)) =>
            /\ q.ready \in {"pending", "ok", "rejected"}
            /\ q.ready = "pending" => (q.upstream = "none" /\ q.status = 0)
            /\ q.upstream # "none" => q.ready = "ok"
            /\ q.ready = "rejected" =>
                  (q.status = 503 /\ q.resDetail = q.detail /\ q.upstream = "none")

\* One gated request was rejected and answered 503, another resolved and was
\* forwarded.
C5_Witness ==
    \E r, t \in RequestIds :
        /\ requests[r].route = "models" /\ requests[r].ready = "rejected"
        /\ requests[r].status = 503 /\ requests[r].resDetail = "health_timeout"
        /\ requests[t].route = "speech" /\ requests[t].ready = "ok"
        /\ requests[t].upstream = "speech"

Failed(o) == o \in {"false", "throw"}

\* The failures at the end of history h
RECURSIVE TrailingFailures(_)
TrailingFailures(h) ==
    IF h = <<>> \/ ~Failed(h[Len(h)])
    THEN 0
    ELSE 1 + TrailingFailures(SubSeq(h, 1, Len(h) - 1))

\* The complete groups of three failures in a row in history h, a success or a
\* stop() ending a row
RECURSIVE Episodes(_)
Episodes(h) ==
    IF h = <<>> THEN 0
    ELSE LET n == TrailingFailures(h) IN
         IF n = 0
         THEN Episodes(SubSeq(h, 1, Len(h) - 1))
         ELSE (n \div 3) + Episodes(SubSeq(h, 1, Len(h) - n))

\* C6 as stated: the check() calls made while a probe is in flight share that
\* probe, so the callers of check() never have two pings in flight.
C6_OneProbeForCallers == health.pings["call"] <= 1

\* C7: whatever the outcomes, onUnhealthy has been called once per complete
\* group of three consecutive failures (false or exception) and the counter
\* holds the failures of the incomplete group, so that a failure after a
\* callback starts a new count of three.
C7_ThreeFailures ==
    /\ health.unhealthyCalls = Episodes(health.history)
    /\ health.consecutive_failures = TrailingFailures(health.history) % 3

\* Four failures in a row, an exception among them: one callback, counter 1.
C7_Witness ==
    /\ TrailingFailures(health.history) = 4
    /\ \E n \in DOMAIN health.history : health.history[n] = "throw"
    /\ health.unhealthyCalls = 1
    /\ health.consecutive_failures = 1

\* C8 as stated: the periodic probes of start() never overlap.
C8_NoOverlap == health.pings["tick"] <= 1

\* The last macrotask ran the exit handler of the current child outside a stop.
UnexpectedExit == procMgr'.uptime # -1 /\ ~procMgr.stopping

\* C9 as stated: an unexpected exit at uptime >= 30 s leaves the counter at
\* zero, an earlier one leaves it incremented.
C9_Original ==
    [][ UnexpectedExit =>
          IF procMgr'.uptime >= HEALTHY_UPTIME_MS
          THEN procMgr'.restarts = 0
          ELSE procMgr'.restarts = procMgr.restarts + 1 ]_vars

\* C9 amended: an unexpected exit at uptime >= 30 s resets the counter and the
\* exhausted flag before the restart decision; the decision then adds one iff
\* restartOnCrash is on, the budget is not exhausted and the counter is below
\* maxRestarts (so a healthy exit leaves 1 when a restart is scheduled, 0
\* otherwise), and leaves the counter alone otherwise.
C9_ExitCounter ==
    [][ UnexpectedExit =>
          LET healthy == procMgr'.uptime >= HEALTHY_UPTIME_MS
              base == IF healthy THEN 0 ELSE procMgr.restarts
              spent == ~healthy /\ procMgr.restartBudgetExhausted
              restart == cfg.restartOnCrash /\ ~spent /\ base < cfg.maxRestarts
          IN  /\ procMgr'.restarts = IF restart THEN base + 1 ELSE base
              /\ procMgr'.restartTimer = restart ]_vars

\* An unexpected exit at exactly the threshold, after earlier crashes, handled:
\* the counter is back at 1 and the restart is scheduled.
C9_Witness ==
    /\ procMgr.uptime = HEALTHY_UPTIME_MS
    /\ procMgr.restarts = 1
    /\ procMgr.restartTimer
    /\ cfg.maxRestarts >= 2

\* This step spawns a worker for an automatic restart (the delayed restart's
\* start() or the unhealthy callback's restart()).
AutoSpawn ==
    /\ procMgr.proc = NULL
    /\ procMgr'.proc # NULL
    /\ \E i \in DOMAIN Queue : Queue[i].pc = "kph" /\ Queue[i].kind \in AutoKinds

\* C10 as stated: with the counter at cfg.maxRestarts no automatic restart
\* spawns a worker.
C10_Original ==
    [][ procMgr.restarts = cfg.maxRestarts => ~AutoSpawn ]_vars

\* C10 amended: once the budget is exhausted (a restart trigger found the
\* counter at cfg.maxRestarts) no automatic restart spawns a worker until the
\* counter is reset, by resetCrashCounter or by the healthy-uptime reset.
C10_NoRestartWhenExhausted ==
    [][ procMgr.restartBudgetExhausted => ~AutoSpawn ]_vars

\* The budget is exhausted after real restarts and the worker stays down.
C10_Witness ==
    /\ procMgr.restartBudgetExhausted
    /\ cfg.maxRestarts >= 1
    /\ procMgr.restarts = cfg.maxRestarts
    /\ procMgr.proc = NULL
    /\ ~procMgr.restartTimer

\* C11: a pending delayed-restart timer does not outlive a stop() or a
\* start(): while the supervisor is stopping, has a handle or has a lifecycle
\* call unsettled the timer is not armed, so it can neither start a worker
\* after a stop() nor spawn one beside a manual start().
C11_TimerCancelled ==
    procMgr.restartTimer =>
        (~procMgr.stopping /\ procMgr.proc = NULL /\ Queue = <<>>)

\* A stop() found the restart timer armed and cancelled it.
C11_Witness ==
    /\ procMgr.cancelled
    /\ ~procMgr.restartTimer
    /\ \E e \in Settled : e.kind = "stop" /\ e.outcome = "stopped"

\* C12: a synthesis request whose body is an object without input, with an
\* input that is not a string, or with an input that is empty once trimmed is
\* answered 400 and no request is made to the worker for it.
C12_EmptyInputRejected ==
    \A r \in RequestIds :
        LET q == requests[r]
            input == q.body.fields.input
        IN  (q.body.kind = "object" /\
             (input.t # "string" \/ \A n \in DOMAIN input.v : input.v[n] \in Whitespace)) =>
                (q.status = 400 /\ q.resError = "no_input" /\ q.upstream = "none")

\* A request whose input is only whitespace has been answered 400.
C12_Witness ==
    \E r \in RequestIds :
        /\ requests[r].body.kind = "object"
        /\ requests[r].body.fields.input = [t |-> "string", v |-> <<" ", "\t">>]
        /\ requests[r].status = 400
        /\ requests[r].upstream = "none"

\* C17: the body forwarded for a synthesis request has the caller's input,
\* for every other key the injected value if one is injected and the caller's
\* value otherwise, except that a voice naming an OpenAI voice is removed.
C17_MergedBody ==
    \A r \in RequestIds :
        LET q == requests[r]
            caller == q.body.fields
        IN  q.upstream = "speech" =>
              /\ q.sent.input = caller.input
              /\ \A k \in {"model", "speed"} :
                    q.sent[k] = IF BuildInjectedParams[k].t # "absent"
                                THEN BuildInjectedParams[k] ELSE caller[k]
              /\ q.sent.voice =
                    IF caller.voice.t = "string" /\ caller.voice.v \in OPENAI_VOICE_NAMES
                    THEN NoValue ELSE caller.voice

\* Two requests forwarded: the caller's model replaced by the configured one,
\* the voice "alloy" removed from one and the voice "af_bella" kept in the
\* other, the input forwarded untrimmed.
C17_Witness ==
    \E r, t \in RequestIds :
        /\ requests[r].upstream = "speech" /\ requests[t].upstream = "speech"
        /\ requests[r].body.fields.voice.v = "alloy"
        /\ requests[r].body.fields.model.v = "client-overridden"
        /\ requests[r].sent.voice = NoValue
        /\ requests[r].sent.model.v = "cfg.model"
        /\ requests[r].sent.input.v = <<" ", "h", "i">>
        /\ requests[t].sent.voice.v = "af_bella"

\* C15: the chunk that takes the accumulated size over the cap is answered
\* 413 at once; from then on the request is left alone: no further chunk is
\* counted or buffered and nothing is sent to the worker.
C15_TooLarge ==
    [][ \A r \in RequestIds :
          /\ requests'[r].bodySize > MAX_REQUEST_BODY_BYTES =>
                /\ requests'[r].status = 413
                /\ requests'[r].upstream = "none"
          /\ requests[r].tooLarge => requests'[r] = requests[r] ]_vars

\* One chunk was buffered, the next one exceeded the cap: 413.
C15_Witness ==
    \E r \in RequestIds :
        /\ requests[r].chunks = 1
        /\ requests[r].bodySize = MAX_REQUEST_BODY_BYTES + 1
        /\ requests[r].status = 413
        /\ requests[r].upstream = "none"

\* C13: for a speech request whose worker response has a success status, the
\* client's response head is written only together with a first body byte,
\* and a success response that ended without a byte has reached a client that
\* is still connected as 502.
C13_HeadDeferred ==
    \A r \in RequestIds :
        LET q == requests[r] IN
        (q.upstream = "speech" /\ q.upStatus # 0 /\ q.upStatus < 300) =>
            /\ q.status = q.upStatus => q.wrote
            /\ (q.up = "ended" /\ ~q.wrote /\ q.client = "open") =>
                   (q.status = 502 /\ q.resError = "empty" /\ q.resEnded)

C13_Witness ==
    \E r \in RequestIds :
        LET q == requests[r] IN
        /\ q.upstream = "speech" /\ q.upStatus = 200 /\ q.up = "ended"
        /\ ~q.wrote /\ q.status = 502 /\ q.resError = "empty"

\* C14: when the client of a request disconnects while its outbound request
\* exists, the outbound request is destroyed in that step.
C14_DisconnectCancels ==
    [][\A r \in RequestIds :
          (ClientDisconnects(r) /\ requests[r].up \in Live) =>
              (requests'[r].up = "destroyed" /\ requests'[r].disconnected)]_vars

C14_Witness ==
    \E r \in RequestIds :
        /\ requests[r].disconnected /\ requests[r].up = "destroyed"
        /\ requests[r].client = "gone" /\ requests[r].upStatus = 200

\* C16: once the outbound request of a request is over (ended, failed or
\* timed out, before or after the response head was written), the client's
\* response is ended or its connection is closed.
C16_Terminal ==
    \A r \in RequestIds :
        requests[r].up \in {"ended", "destroyed"} =>
            (requests[r].resEnded \/ requests[r].client = "gone")

\* C18: a request for a route other than speech synthesis and the model
\* listing is forwarded without calling ensureUpstreamReady: in the step that
\* routes it nothing is prepared or spawned and the startup status, like the
\* rest of the orchestrator's and the supervisor's state, stays as it was.
C18_OtherRoutesBypass ==
    [][\A r \in RequestIds :
          (requests[r].pc = "idle" /\ requests'[r].pc # "idle"
              /\ requests'[r].route = "other") =>
              /\ requests'[r].upstream = "raw"
              /\ requests'[r].ready = "none"
              /\ UNCHANGED <<orch, procMgr, health, fs, resolution>>]_vars

C18_Witness ==
    \E r \in RequestIds :
        /\ requests[r].route = "other" /\ requests[r].upstream = "raw"
        /\ orch.serviceRunning /\ orch.startupStatus.phase = "idle"
        /\ orch.preps = 0 /\ orch.starts = 0 /\ procMgr.proc = NULL

\* A path lies in a directory: the directory's names are its first names
Inside(dir, p) == Len(p) >= Len(dir) /\ SubSeq(p, 1, Len(dir)) = dir
AllowedRoots == {tmpDir, systemTmpDir, outputDir}

\* C19: a path that resolveSecureOutputPath returns has no parent reference
\* left and lies inside tmpDir, systemTmpDir or outputDir; an outputPath that
\* resolves outside all three is rejected, as are "~/../outside/a" and
\* "/outside/a"; an absent outputPath yields a path inside tmpDir.
C19_InsideAllowedRoot ==
    resolution.pc = "returned" =>
        LET t == ResolveOutputPath(resolution.outputPath) IN
        /\ resolution.result = "ok" =>
              /\ \E root \in AllowedRoots : Inside(root, resolution.targetPath)
              /\ \A i \in DOMAIN resolution.targetPath : resolution.targetPath[i] # ".."
        /\ (t.ok /\ \A root \in AllowedRoots : ~Inside(root, t.path)) =>
              resolution.result \notin {"ok", "none"}
        /\ resolution.outputPath \in
               {[kind |-> "home", segs |-> <<"..", "outside", "a">>],
                [kind |-> "abs", segs |-> <<"outside", "a">>]} =>
              resolution.result = "not_under"
        /\ resolution.outputPath = Absent =>
              (resolution.result = "ok" /\ Inside(tmpDir, resolution.targetPath))

C19_Witness ==
    /\ resolution.pc = "returned"
    /\ resolution.outputPath = [kind |-> "home", segs |-> <<"..", "out", "a">>]
    /\ resolution.result = "ok"
    /\ resolution.targetPath = <<"out", "a">>

\* C20: when resolveSecureOutputPath returns a path, the real path of the
\* path's directory lies inside the real path of the allowed root, whatever
\* was replaced by a link while the resolution was running.
C20_NoEscape ==
    (resolution.pc = "returned" /\ resolution.result = "ok") =>
        Inside(Real(fs, resolution.allowedRoot), Real(fs, resolution.parentDir))

\* Starts: the calls settled in the last macrotask that ran startInternal to
\* its end
Starts == {e \in Settled : e.outcome \in {"spawned", "failed"}}

\* C21 as stated: whenever a process that is not a worker listens on the
\* port, the start fails, spawns nothing and signals nobody.
C21_Original ==
    "foreign" \in procMgr.port.listeners =>
        /\ procMgr.port.signals = {}
        /\ \A e \in Starts : e.outcome = "failed"

\* C21 amended: when lsof could be run and found a process that is not a
\* worker on the port, the start fails, spawns nothing and signals nobody;
\* signals are sent only when every listener found is a worker: SIGTERM to
\* each, SIGKILL to those still alive.
C21_ForeignHolderFatal ==
    /\ (procMgr.port.inspected /\ "foreign" \in procMgr.port.listeners) =>
           /\ procMgr.port.signals = {}
           /\ Starts # {} /\ \A e \in Starts : e.outcome = "failed"
           /\ procMgr.proc = NULL
    /\ procMgr.port.signals # {} =>
           /\ "foreign" \notin procMgr.port.listeners
           /\ \A l \in procMgr.port.listeners : <<l, "SIGTERM">> \in procMgr.port.signals
           /\ \A g \in procMgr.port.signals :
                  g[2] = "SIGKILL" => (g[1] = "stubborn" /\ <<g[1], "SIGTERM">> \in procMgr.port.signals)

C21_Witness ==
    /\ procMgr.port.inspected
    /\ procMgr.port.listeners = {"stale", "foreign"}
    /\ procMgr.port.signals = {}
    /\ \E e \in Starts : e.kind = "start" /\ e.outcome = "failed"

\* ---------------------------------------------------------------------------
\* C22 as stated: every ensureServerReady() call made while an attempt is in
\* flight settles with the outcome of that attempt, at every stage of the
\* attempt, the stages after the spawn included.
C22_Original ==
    \A e \in orch.returned :
        /\ e.attempt = "resolved" => e.ok
        /\ e.attempt = "rejected" => ~e.ok

\* C22 amended: a call made while an attempt is in flight and the worker is
\* not running joins the attempt and settles together with it, with the
\* attempt's outcome; a call made once the worker runs takes the
\* running-process branch and never joins.
C22_JoinedShareOutcome ==
    /\ \A e \in orch.returned :
           e.via = "joined" =>
               \E a \in orch.returned :
                   a.via = "attempt" /\ a.ok = e.ok /\ e.attempt = Outcome(a.ok)
    /\ \A c \in Callers :
           orch.calls[c].pc = "joined" =>
               /\ orch.ensureServerPromise = orch.calls[c].awaits
               /\ orch.calls[orch.calls[c].awaits].pc \in AttemptStages

\* A call that joined an attempt after which the worker was spawned is
\* rejected together with the attempt
C22_Witness ==
    \E e \in orch.returned, f \in orch.failures :
        e.via = "joined" /\ ~e.ok /\ f.started

\* ---------------------------------------------------------------------------
\* C23: once an attempt has failed the in-flight guard is cleared, and the
\* next ensureServerReady() call (service running, worker not running) does
\* not join or inherit the failure: it creates an attempt of its own
C23_FreshAttemptAfterFailure ==
    [][(\E e \in orch.returned : e.via = "attempt" /\ ~e.ok) =>
           /\ orch.ensureServerPromise = NULL
           /\ \A c \in Callers :
                  (EnsureCall(c) /\ orch.serviceRunning /\ ~IsRunning(procMgr)) =>
                      /\ orch'.ensureServerPromise = c
                      /\ orch'.calls[c].pc \in AttemptStages
                      /\ orch'.returned = {}]_vars

\* An attempt that had spawned the worker has just been rejected, and the
\* service is running with no worker
C23_Witness ==
    /\ \E e \in orch.returned : e.via = "attempt" /\ ~e.ok
    /\ orch.ensureServerPromise = NULL
    /\ orch.serviceRunning
    /\ ~IsRunning(procMgr)
    /\ orch.starts > 0

\* ---------------------------------------------------------------------------
\* The catch block of an attempt has asked the supervisor to stop the worker
StopRequested(c) ==
    \/ \E i \in DOMAIN procMgr.lifecycleQueue :
           procMgr.lifecycleQueue[i].owner = c /\ procMgr.lifecycleQueue[i].kind = "stop"
    \/ \E e \in orch.returned : e.c = c /\ e.via = "attempt" /\ ~e.ok /\ e.started

\* What every failing stage of the cold path does to the worker: if the
\* attempt had spawned it, stop() is called for it, and the attempt is
\* rejected only once that stop() has settled, the worker then not running
WorkerStopped ==
    /\ \A f \in orch.failures :
           /\ f.started => StopRequested(f.c)
           /\ ~f.started => \E e \in orch.returned : e.c = f.c /\ e.via = "attempt" /\ ~e.ok
    /\ \A e \in orch.returned :
           (e.via = "attempt" /\ ~e.ok /\ e.started) =>
               /\ ~IsRunning(procMgr)
               /\ \E t \in {procMgr.settled[n] : n \in DOMAIN procMgr.settled} : t.kind = "stop"

\* C24 as stated: whichever stage fails, the worker spawned by the attempt is
\* stopped and the startup status ends in phase error.
C24_Original ==
    /\ WorkerStopped
    /\ \A f \in orch.failures :
           orch.startupStatus = [phase |-> "error", inProgress |-> FALSE]

\* C24 amended: whichever stage fails, the worker spawned by the attempt is
\* stopped; the startup status ends in phase error if the service is still
\* running when the failure is handled, and in phase idle if the service has
\* been stopped in between.
C24_FailureCleansUp ==
    /\ WorkerStopped
    /\ \A f \in orch.failures :
           orch.startupStatus =
               [phase |-> IF f.running THEN "error" ELSE "idle", inProgress |-> FALSE]

\* An attempt that had spawned the worker fails while the service runs, and
\* its stop() is under way
C24_Witness ==
    \E f \in orch.failures :
        /\ f.started /\ f.running
        /\ orch.calls[f.c].pc = "cleanup"
        /\ procMgr.killed

\* ---------------------------------------------------------------------------
\* C25 as stated: an attempt that fails because the health probe times out
\* leaves the worker running.
C25_Original ==
    [][\A c \in Callers :
           PollSettles(c, FALSE) =>
               /\ procMgr'.proc = procMgr.proc
               /\ procMgr'.killed = procMgr.killed]_vars

\* C25 amended: a probe that times out in the running-process branch leaves
\* the worker and the lifecycle queue as they are, and the next call made
\* while the worker runs probes the same process again and spawns nothing; a
\* probe that times out in the attempt that spawned the worker has the
\* worker stopped.
C25_TimeoutKeepsOnlyRunningWorker ==
    [][/\ \A c \in Callers :
              PollSettles(c, FALSE) =>
                  IF orch.calls[c].pc = "hot"
                  THEN /\ procMgr'.proc = procMgr.proc
                       /\ procMgr'.killed = procMgr.killed
                       /\ procMgr'.lifecycleQueue = procMgr.lifecycleQueue
                       /\ \E e \in orch'.returned : e.c = c /\ e.via = "hot" /\ ~e.ok
                  ELSE StopRequested(c)'
       /\ (\E e \in orch.returned : e.via = "hot" /\ ~e.ok) =>
              \A c \in Callers :
                  (EnsureCall(c) /\ orch.serviceRunning /\ IsRunning(procMgr)) =>
                      /\ orch'.calls[c].pc = "hot"
                      /\ procMgr'.proc = procMgr.proc
                      /\ procMgr'.lifecycleQueue = procMgr.lifecycleQueue
                      /\ orch'.starts = orch.starts]_vars

\* The probe of a call in the running-process branch has timed out, and the
\* worker is still running
C25_Witness ==
    /\ \E e \in orch.returned : e.via = "hot" /\ ~e.ok /\ e.attempt = "none"
    /\ IsRunning(procMgr)
    /\ orch.serviceRunning
    /\ orch.ensureServerPromise = NULL

\* ---------------------------------------------------------------------------
\* C26: ensureServerReady() called while the service is not running is
\* rejected at once and changes nothing: no preparation, no lifecycle call,
\* no spawn, no change of the startup status, of the guard or of any call in
\* progress
C26_RejectedWhenNotRunning ==
    [][\A c \in Callers :
           (EnsureCall(c) /\ ~orch.serviceRunning) =>
               /\ orch'.returned =
                      {[c |-> c, ok |-> FALSE, via |-> "not_running", attempt |-> "none",
                        started |-> FALSE]}
               /\ [orch' EXCEPT !.returned = {}, !.failures = {}, !.begun = FALSE] =
                      [orch EXCEPT !.returned = {}, !.failures = {}, !.begun = FALSE]
               /\ procMgr' = Macrotask(procMgr)
               /\ health' = health]_vars

\* A call has been rejected because the service was stopped, while the
\* worker of the stopped service had not exited yet
C26_Witness ==
    /\ \E e \in orch.returned : e.via = "not_running"
    /\ ~orch.serviceRunning
    /\ procMgr.alive # {}

\* ---------------------------------------------------------------------------
\* C27: after a configuration reload that changes the public port has
\* completed while the service is running, the gateway accepts no connection
\* on the old public port and accepts connections on the new one
C27_ReloadMovesGateway ==
    config.reloaded # NoReload =>
        /\ \A l \in proxy.listening : l.port # config.reloaded.old
        /\ \E l \in proxy.listening : l.port = config.reloaded.new

\* ---------------------------------------------------------------------------
\* A lifecycle task holds the queue at some point of the step: one was
\* running before it, is running after it, or settled during it
TaskHeld ==
    \/ \E i \in DOMAIN procMgr.lifecycleQueue : procMgr.lifecycleQueue[i].pc # "queued"
    \/ \E i \in DOMAIN procMgr'.lifecycleQueue : procMgr'.lifecycleQueue[i].pc # "queued"
    \/ procMgr'.settled # <<>>

C30_StopIdempotent ==
    [][(Call("stop") /\ procMgr.proc = NULL /\ procMgr.lifecycleQueue = <<>>) =>
           /\ procMgr'.proc = NULL
           /\ procMgr'.killed = procMgr.killed
           /\ procMgr'.alive = procMgr.alive
           /\ procMgr'.restarts = procMgr.restarts
           /\ procMgr'.restartBudgetExhausted = procMgr.restartBudgetExhausted
           /\ procMgr'.lifecycleQueue = <<>>
           /\ \E n \in DOMAIN procMgr'.settled : procMgr'.settled[n].kind = "stop"
           /\ (\E n \in DOMAIN procMgr.settled : procMgr.settled[n].kind = "stop") =>
                  Macrotask(procMgr') = Macrotask(procMgr)]_vars

\* A stop() called with no handle and no process left has just resolved, the
\* restart counter keeping its value
C30_Witness ==
    /\ \E n \in DOMAIN procMgr.settled : procMgr.settled[n].kind = "stop"
    /\ Len(procMgr.settled) = 1
    /\ procMgr.alive = {}
    /\ procMgr.uptime = -1
    /\ procMgr.proc = NULL
    /\ procMgr.restarts > 0

\* ---------------------------------------------------------------------------
\* The place of a phase in the order of an attempt
PhaseRank(phase) ==
    CASE phase = "idle" -> 0
      [] phase = "preparing_python" -> 1
      [] phase = "starting_server" -> 2
      [] phase = "waiting_health" -> 3
      [] OTHER -> 4

\* C31: within one startup attempt (no begin() and no markIdle() in the
\* step) the phase stays or moves forward in the order preparing_python,
\* starting_server, waiting_health, ready or error, and ready and error are
\* not left
C31_PhaseMonotonic ==
    [][\/ orch'.begun
       \/ orch'.startupStatus.phase = "idle"
       \/ orch'.startupStatus.phase = orch.startupStatus.phase
       \/ PhaseRank(orch.startupStatus.phase) < PhaseRank(orch'.startupStatus.phase)]_vars


\* The tracker alone, called as index.ts calls it, with its timers and scans
InitStatus ==
    /\ cfg = [restartOnCrash |-> TRUE, maxRestarts |-> MaxRestartsCfg]
    /\ procMgr = InitProcMgr
    /\ health = InitHealth
    /\ requests = [r \in RequestIds |-> InitRequest]
    /\ orch = InitOrch
    /\ fs = BaseFs
    /\ resolution = InitResolution
    /\ proxy = InitProxy
    /\ config = InitConfig
    /\ tracker \in {InitTracker, [InitTracker EXCEPT !.estimate = {}]}

NextStatus ==
    \/ \E call \in {"begin", "markPreparingPython", "markStartingServer",
                    "markWaitingHealth", "markReady", "markError", "markIdle"} :
           TrackerCalled(call)
    \/ \E referenced \in BOOLEAN : PollTimerFires(referenced)
    \/ \E bytes \in 0..MaxBytes, ok \in BOOLEAN : ScanSettles(bytes, ok)

SpecStatus == InitStatus /\ [][NextStatus]_vars

\* C32: a progress percentage that is present is an integer between 0 and 99
\* while the phase is not ready and is exactly 100 whenever the phase is
\* ready, also when a scan that began before markReady() settles after it.
C32_PercentBounds ==
    \A p \in tracker.percent :
        IF tracker.phase = "ready" THEN p = 100 ELSE p \in 0..99

\* C33: after markReady(), markError() or markIdle(), until a later
\* markWaitingHealth(), no poll timer is pending and no scan of the cache
\* is started.
C33_PollerStopped ==
    [][/\ tracker'.stopped => ~tracker'.pollTimer /\ tracker'.orphans = 0
       /\ (tracker.stopped /\ tracker'.stopped) => (tracker'.polling => tracker.polling)]_vars

\* C34: stop() leaves the consecutive-failure counter at zero, and the
\* failures seen before a stop() do not count afterwards: onUnhealthy is
\* called only when the last three checks that settled failed with no stop()
\* between them.
C34_StopResetsFailures ==
    [][/\ HCStop => health'.consecutive_failures = 0
       /\ health'.unhealthyCalls > health.unhealthyCalls =>
             /\ Len(health'.history) >= 3
             /\ \A n \in (Len(health'.history) - 2)..Len(health'.history) :
                    Failed(health'.history[n])]_vars

\* Two failures, a stop(), two more failures: no callback, the counter at two
C34_Witness ==
    /\ Len(health.history) = 5
    /\ \A n \in {1, 2, 4, 5} : Failed(health.history[n])
    /\ health.history[3] = "stop"
    /\ health.consecutive_failures = 2
    /\ health.unhealthyCalls = 0

\* C35: once the service's stop() has completed, and until the service is
\* started again, the supervisor has no worker handle: no readiness attempt
\* that was preparing, spawning or polling when stop() was called has spawned
\* a worker or left one running.
C35_NoWorkerAfterStop ==
    orch.service = "stopped" => procMgr.proc = NULL

\* The service's stop() has completed and an attempt that had spawned the
\* worker before has just ended in its catch block, the worker gone
C35_Witness ==
    /\ orch.service = "stopped"
    /\ ~orch.serviceRunning
    /\ \E f \in orch.failures : f.started /\ ~f.running
    /\ procMgr.proc = NULL
    /\ procMgr.alive = {}

\* C36: once the service's stop() has completed, and until the service is
\* started again, the periodic health monitor is not running, whatever
\* ensureServerReady() calls were in flight when stop() was called.
C36_NoMonitorAfterStop ==
    orch.service = "stopped" => ~health.timer

\* C37: the restart the health monitor asks for takes one unit of the restart
\* budget the crash restarts use: with budget left the counter goes up by one
\* and the worker is being stopped; with the budget used up (the counter at
\* maxRestarts, or the exhausted flag set) the call returns with the worker,
\* its handle and the counter as they were, nothing signalled or spawned.
C37_HealthRestartBudget ==
    [][(Unhealthy /\ procMgr.lifecycleQueue = <<>>) =>
          IF ~procMgr.restartBudgetExhausted /\ procMgr.restarts < cfg.maxRestarts
          THEN /\ procMgr'.restarts = procMgr.restarts + 1
               /\ procMgr'.killed
               /\ procMgr'.proc = procMgr.proc
               /\ Len(procMgr'.lifecycleQueue) = 1
               /\ procMgr'.lifecycleQueue[1].pc = "exitwait"
          ELSE /\ procMgr'.restarts = procMgr.restarts
               /\ procMgr'.restartBudgetExhausted
               /\ procMgr'.proc = procMgr.proc
               /\ procMgr'.alive = procMgr.alive
               /\ ~procMgr'.killed
               /\ procMgr'.stopping = procMgr.stopping
               /\ procMgr'.lifecycleQueue = <<>>
               /\ Len(procMgr'.settled) = 1
               /\ procMgr'.settled[1].outcome = "denied"]_vars

\* A health-triggered restart has just been refused, the counter at its
\* limit after crash and health restarts, and the worker runs on
C37_Witness ==
    /\ Len(procMgr.settled) = 1
    /\ procMgr.settled[1].kind = "restart_health"
    /\ procMgr.settled[1].outcome = "denied"
    /\ procMgr.restarts = cfg.maxRestarts
    /\ cfg.maxRestarts = MaxRestartsCfg
    /\ procMgr.restartBudgetExhausted
    /\ IsRunning(procMgr)

\* C38: an 'exit' or 'error' event of a child that is not the current handle
\* changes nothing: handle, start time, restart counter, exhausted flag and
\* last error stay as they were, no restart is scheduled and no lifecycle
\* call is resumed or issued.
C38_StaleEventsIgnored ==
    [][\A e \in procMgr'.emitted :
          procMgr.proc # e[1] =>
             /\ procMgr'.proc = procMgr.proc
             /\ procMgr'.startedAt = procMgr.startedAt
             /\ procMgr'.restarts = procMgr.restarts
             /\ procMgr'.restartBudgetExhausted = procMgr.restartBudgetExhausted
             /\ procMgr'.lastError = procMgr.lastError
             /\ procMgr'.restartTimer = procMgr.restartTimer
             /\ procMgr'.stopping = procMgr.stopping
             /\ procMgr'.lifecycleQueue = procMgr.lifecycleQueue]_vars

\* A child that a stop() gave up on exits while its successor is the handle:
\* the exit handler returned at its guard
C38_Witness ==
    /\ \E e \in procMgr.emitted : e[2] = "exit" /\ procMgr.proc # e[1]
    /\ procMgr.uptime = -1
    /\ IsRunning(procMgr)
    /\ procMgr.restarts > 0

\* C39: with the configuration fixed, the restart counter stays between zero
\* and cfg.maxRestarts in every reachable state.
C39_RestartsBounded ==
    /\ procMgr.restarts >= 0
    /\ procMgr.restarts <= cfg.maxRestarts

\* The counter at its limit, reached by crash and health restarts, and the
\* next request for budget refused
C39_Witness ==
    /\ procMgr.restarts = cfg.maxRestarts
    /\ cfg.maxRestarts = MaxRestartsCfg
    /\ procMgr.restartBudgetExhausted
    /\ procMgr.lastError = "limit"

\* A lifecycle call was rejected in the last macrotask
FailedCall == \E n \in DOMAIN procMgr.settled : procMgr.settled[n].outcome = "failed"

\* C40: a start() that fails, on a foreign port holder or in spawn(), releases
\* the queue. It fails at the head of the queue, the calls issued before it
\* having settled; the step that rejects it takes it out of the queue and the
\* call behind it begins in that step; no call is ever left waiting at the
\* head of the queue; and a call that was issued while the failing start()
\* was pending goes on to settle.
C40_FailureReleasesQueue ==
    /\ [][FailedCall' =>
            /\ \A n \in DOMAIN procMgr'.settled : procMgr'.settled[n].ahead = 0
            /\ Len(procMgr'.lifecycleQueue) = Len(procMgr.lifecycleQueue) - Len(procMgr'.settled)
            /\ procMgr'.lifecycleQueue # <<>> => procMgr'.lifecycleQueue[1].pc # "queued"]_vars
    /\ [](procMgr.lifecycleQueue # <<>> => procMgr.lifecycleQueue[1].pc # "queued")
    /\ (/\ FailedCall
        /\ \A n \in DOMAIN procMgr.settled : ~procMgr.settled[n].behindStart
        /\ procMgr.lifecycleQueue # <<>>
        /\ procMgr.lifecycleQueue[1].behindStart)
           ~> (\E n \in DOMAIN procMgr.settled : procMgr.settled[n].behindStart)

\* A start() has just been rejected and the call queued behind it is running
C40_Witness ==
    /\ Len(procMgr.settled) = 1
    /\ procMgr.settled[1].outcome = "failed"
    /\ procMgr.settled[1].kind \in StartKinds
    /\ ~procMgr.settled[1].behindStart
    /\ procMgr.lifecycleQueue # <<>>
    /\ procMgr.lifecycleQueue[1].pc = "kph"
    /\ procMgr.lifecycleQueue[1].behindStart

=============================================================================
